---- MODULE Spec2Model ----
(***************************************************************************)
(* Marker / segment consistency engine of the mp3player package:           *)
(* MarkerManager (marker_manager.py) and SegmentManager (segment.py),      *)
(* with the segment loop of PlaybackController (playback.py) and the       *)
(* worker threads of FasterWhisperTranscriber.transcribe_async.            *)
(*                                                                         *)
(* Times are integers in milliseconds: 1.0 s = 1000, 0.001 s = 1,          *)
(* END_TOLERANCE = 0.5 s = 500.                                            *)
(* Marker dicts are Python objects that are shared by reference between    *)
(* the marker list and the undo/redo records, so the model keeps a heap    *)
(* of marker objects and the list and the records hold object ids.         *)
(* A marker name "Marker<k>" is the integer k, "TempMarker" is -1.         *)
(* List indices stored in the state are 0-based as in the source.          *)
(***************************************************************************)
EXTENDS Integers, Sequences, FiniteSets, TLC

VARIABLES
    heap,                   \* marker dict objects: id -> [time, name, comment, content]
    markers,                \* MarkerManager.markers: list of object ids
    undo_stack,             \* MarkerManager.undo_stack
    redo_stack,             \* MarkerManager.redo_stack
    selected_marker_index,  \* MarkerManager.selected_marker_index (None or an index)
    segments,               \* SegmentManager.segments
    status,                 \* text last written to player.status_label
    saved,                  \* calls of player.save_marker_data made by the last handler
    duration,               \* player.duration of the loaded file
    calls_left,             \* handler calls the run may still make
    marker_change_callbacks,\* MarkerManager.marker_change_callbacks, in registration order
    playback,               \* PlaybackController: the segment fields, player.current_file,
                            \* and what the last handler exchanged with mpv
    threads                 \* the worker threads started by transcribe_async

vars == <<heap, markers, undo_stack, redo_stack, selected_marker_index,
          segments, status, saved, duration, calls_left,
          marker_change_callbacks, playback, threads>>

----------------------------------------------------------------------------
(* Program constants *)

max_markers == 100
max_history == 50
max_retries == 3
END_TOLERANCE == 500
MIN_SPACING == 1000
MIN_TIME == 1
Marker0 == 0
Marker500 == 500
TempMarker == -1
None == -1

(* Bounds of the model *)

ShortFile == 3000
LongFile == 200000
LoadedFrom == 3000
MaxCallsFull == 3
MaxCalls == 3
MaxIndexInput == 3
MinMoves == 48
MaxMoves == 50
MaxCallsHistory == 2
MaxCallsContent == 2
MaxCallbacks == 3
MaxCallsCallbacks == 2
MaxThreads == 2

EntryTimes == {-1000, 0, 1000, 2800}
Positions == {1000, 2200}
PreviewTimes == {2200}
Texts == {<<"A">>, <<"B">>}
QueryTimes == {-500, 0, 1000, 1500, 3000, 3500}

----------------------------------------------------------------------------
(* Helpers *)

Abs(x) == IF x < 0 THEN 0 - x ELSE x

Min(S) == CHOOSE x \in S : \A y \in S : x <= y

Range(s) == {s[i] : i \in 1..Len(s)}

IsFixed(m) == m.name = Marker0 \/ m.name = Marker500

NoRecordData == 0

\* dict.copy() / a new dict: the smallest id no live object has
NewId(h) == Min((1..(Cardinality(DOMAIN h) + 1)) \ DOMAIN h)

\* the marker list as the list of dicts it holds
Dicts(h, m) == [i \in 1..Len(m) |-> h[m[i]]]

IsSortedByTime(h, m) == \A i \in 1..(Len(m) - 1) : h[m[i]].time <= h[m[i + 1]].time

\* Step(lo, ...Step(hi - 1, Step(hi, acc))) read left to right: the loop
\* "for i in lo..hi: acc = Step(i, acc)", evaluated by halves so that the
\* depth of the evaluation grows with the logarithm of the length
RECURSIVE FoldRange(_, _, _, _)
FoldRange(Step(_, _), lo, hi, acc) ==
    IF lo > hi THEN acc
    ELSE IF lo = hi THEN Step(lo, acc)
    ELSE LET mid == (lo + hi) \div 2
             left == FoldRange(Step, lo, mid, acc)
         IN  \* the test makes the first half run before the second starts
             IF left = left THEN FoldRange(Step, mid + 1, hi, left) ELSE acc

\* x put into the sorted list s after every element whose time is <= its own
InsertByTime(h, s, x) ==
    IF s = <<>> \/ h[s[Len(s)]].time <= h[x].time THEN Append(s, x)
    ELSE LET p == Cardinality({i \in 1..Len(s) : h[s[i]].time <= h[x].time})
         IN  SubSeq(s, 1, p) \o <<x>> \o SubSeq(s, p + 1, Len(s))

StableSort(h, s) == FoldRange(LAMBDA i, acc : InsertByTime(h, acc, s[i]), 1, Len(s), <<>>)

\* list.sort(key=lambda m: m["time"]): stable, ascending by time
SortByTime(h, s) == IF IsSortedByTime(h, s) THEN s ELSE StableSort(h, s)

\* list.index(x): 0-based position of the first element equal (==) to x
IndexOf(h, m, d) == Min({i \in 1..Len(m) : h[m[i]] = d}) - 1

SelectSeqIds(h, m, Test(_)) == SelectSeq(m, LAMBDA id : Test(h[id]))

RemoveAt(s, i) == SubSeq(s, 1, i - 1) \o SubSeq(s, i + 1, Len(s))

\* list.insert(i, x) with a 0-based i >= 0 (an i beyond the end appends)
InsertAt(s, i, x) ==
    LET p == IF i > Len(s) THEN Len(s) ELSE i
    IN  SubSeq(s, 1, p) \o <<x>> \o SubSeq(s, p + 1, Len(s))

----------------------------------------------------------------------------
(* segment.py *)

\* Segment.__init__; start_time <= end_time always holds for a sorted marker
\* list, so the ValueError branch is never taken
Segment(index, start_time, end_time, comment, content) ==
    [index |-> index, start_time |-> start_time, end_time |-> end_time,
     duration |-> end_time - start_time, comment |-> comment, content |-> content]

\* the two contents put end to end with nothing between them
JoinEndToEnd(a, b) == a \o b

\* "\n".join(parts) on strings kept as sequences of characters
JoinNewline(a, b) ==
    IF a = <<>> THEN b
    ELSE IF b = <<>> THEN a
    ELSE a \o <<"\n">> \o b

\* the old segments by start time: start_time -> their indices, ascending
StartIndex(existing) ==
    FoldRange(LAMBDA j, acc :
                  IF existing[j].start_time \in DOMAIN acc
                  THEN [acc EXCEPT ![existing[j].start_time] = Append(@, j)]
                  ELSE acc @@ (existing[j].start_time :> <<j>>),
              1, Len(existing), <<>>)

StartingAt(by_start, t) == IF t \in DOMAIN by_start THEN by_start[t] ELSE <<>>

\* the first inner loop taking the first old segment that contains the new
\* one, wherever it starts and whether or not it has been used
MatchAnyContaining(existing, by_start, used, ns, ne) ==
    LET J == {j \in 1..Len(existing) :
                \/ existing[j].start_time = ns /\ existing[j].end_time = ne
                \/ /\ existing[j].start_time <= ns /\ ns < ne
                   /\ ne <= existing[j].end_time}
    IN  IF J = {} THEN [content |-> <<>>, used |-> used]
        ELSE [content |-> existing[Min(J)].content, used |-> used \cup {Min(J)}]

\* the first inner loop without its exact-match rule: an old segment gives
\* its content only to a new segment that is shorter than itself
MatchProperSplitOnly(existing, by_start, used, ns, ne) ==
    LET J == {j \in Range(StartingAt(by_start, ns)) \ used :
                /\ existing[j].start_time = ns /\ ns < ne
                /\ ne < existing[j].end_time}
    IN  IF J = {} THEN [content |-> <<>>, used |-> used]
        ELSE [content |-> existing[Min(J)].content, used |-> used \cup {Min(J)}]

\* the first inner loop without its split rule: exact matches only
MatchExactOnly(existing, by_start, used, ns, ne) ==
    LET J == {j \in Range(StartingAt(by_start, ns)) \ used :
                existing[j].start_time = ns /\ existing[j].end_time = ne}
    IN  IF J = {} THEN [content |-> <<>>, used |-> used]
        ELSE [content |-> existing[Min(J)].content, used |-> used \cup {Min(J)}]

\* First inner loop of _calculate_segments: the first old segment, not yet
\* used, that is an exact match or a split whose left part is the new segment.
\* Both tests need old.start_time = ns, so only those segments are looked at.
MatchExactOrSplit(existing, by_start, used, ns, ne) ==
    LET J == {j \in Range(StartingAt(by_start, ns)) \ used :
                \/ existing[j].start_time = ns /\ existing[j].end_time = ne
                \/ /\ existing[j].start_time <= ns /\ ns < ne
                   /\ ne <= existing[j].end_time
                   /\ ns = existing[j].start_time}
    IN  IF J = {} THEN [content |-> <<>>, used |-> used]
        ELSE [content |-> existing[Min(J)].content, used |-> used \cup {Min(J)}]

\* the second inner loop started from an empty preserved_content: what the
\* first loop found is kept only as a used segment
MatchMergeFromEmpty(existing, by_start, first, ns, ne) ==
    LET starts == StartingAt(by_start, ns)
        MergeStep(c, prev) ==
            LET j == starts[c]
                K == {k \in Range(StartingAt(by_start, existing[j].end_time))
                                \ (prev.used \cup {j}) :
                        /\ existing[k].end_time = ne
                        /\ existing[j].end_time = existing[k].start_time}
            IN  IF j \in prev.used \/ K = {}
                THEN prev
                ELSE [content |-> JoinNewline(existing[j].content,
                                              existing[Min(K)].content),
                      used |-> prev.used \cup {j, Min(K)}]
    IN  FoldRange(MergeStep, 1, Len(starts), [content |-> <<>>, used |-> first.used])

\* Second inner loop of _calculate_segments: merge of two adjacent old
\* segments.  A pass over old segment j changes something only when j starts
\* at ns, and its partner k starts where j ends.
MatchMerge(existing, by_start, first, ns, ne) ==
    LET starts == StartingAt(by_start, ns)
        MergeStep(c, prev) ==
            LET j == starts[c]
                K == {k \in Range(StartingAt(by_start, existing[j].end_time))
                                \ (prev.used \cup {j}) :
                        /\ existing[k].end_time = ne
                        /\ existing[j].end_time = existing[k].start_time}
            IN  IF j \in prev.used \/ K = {}
                THEN prev
                ELSE [content |-> JoinNewline(existing[j].content,
                                              existing[Min(K)].content),
                      used |-> prev.used \cup {j, Min(K)}]
    IN  FoldRange(MergeStep, 1, Len(starts), first)

\* one pass of the loop over the sorted markers: segment i (0-based)
SegmentStep(existing_segments, by_start, h, sorted_markers, i, acc) ==
    LET start_marker == h[sorted_markers[i + 1]]
        end_marker == h[sorted_markers[i + 2]]
        first == MatchExactOrSplit(existing_segments, by_start, acc.used,
                                   start_marker.time, end_marker.time)
        both == MatchMerge(existing_segments, by_start, first,
                           start_marker.time, end_marker.time)
    IN  [segs |-> Append(acc.segs,
                         Segment(i, start_marker.time, end_marker.time,
                                 start_marker.comment, both.content)),
         used |-> both.used]

\* the recomputation with its early return ahead of "self.segments = []":
\* with fewer than 2 markers the old segments stay
_calculate_segments_keeping_old(existing_segments, h, m) ==
    LET sorted_markers == SortByTime(h, m)
        n == Len(sorted_markers)
        by_start == StartIndex(existing_segments)
    IN  IF n < 2 THEN existing_segments
        ELSE FoldRange(LAMBDA i, acc : SegmentStep(existing_segments, by_start, h,
                                                  sorted_markers, i, acc),
                       0, n - 2, [segs |-> <<>>, used |-> {}]).segs

_calculate_segments(existing_segments, h, m) ==
    LET sorted_markers == SortByTime(h, m)
        n == Len(sorted_markers)
        by_start == StartIndex(existing_segments)
    IN  IF n < 2 THEN <<>>
        ELSE FoldRange(LAMBDA i, acc : SegmentStep(existing_segments, by_start, h,
                                                  sorted_markers, i, acc),
                       0, n - 2, [segs |-> <<>>, used |-> {}]).segs

\* Segment.contains_time
contains_time(segment, time) == segment.start_time <= time /\ time <= segment.end_time

\* the lookup without its test of the index: a negative index counts from
\* the end of the list
get_segment_by_index_unchecked(segs, index) ==
    IF index >= Len(segs) THEN <<>>
    ELSE IF index < 0 THEN <<segs[Len(segs) + index + 1]>>
    ELSE <<segs[index + 1]>>

\* a method that returns a Segment or None returns <<segment>> or <<>>
get_segment_by_index(segs, index) ==
    IF 0 <= index /\ index < Len(segs) THEN <<segs[index + 1]>> ELSE <<>>

\* the lookup that returns the first of the segments containing the time
get_segment_at_time_first(segs, time) ==
    LET containing_segments == SelectSeq(segs, LAMBDA g : contains_time(g, time))
    IN  IF containing_segments = <<>> THEN <<>> ELSE <<containing_segments[1]>>

\* max(containing_segments, key=index): the first one of the highest index
get_segment_at_time(segs, time) ==
    LET containing_segments == SelectSeq(segs, LAMBDA g : contains_time(g, time))
        highest == CHOOSE x \in {containing_segments[i].index :
                                    i \in 1..Len(containing_segments)} :
                       \A i \in 1..Len(containing_segments) :
                           containing_segments[i].index <= x
    IN  IF containing_segments = <<>> THEN <<>>
        ELSE <<containing_segments[Min({i \in 1..Len(containing_segments) :
                                           containing_segments[i].index = highest})]>>

get_next_segment(segs, current_time) ==
    LET current_segment == get_segment_at_time(segs, current_time)
        later == {i \in 1..Len(segs) : current_time < segs[i].start_time}
    IN  IF current_segment = <<>>
        THEN IF later = {} THEN <<>> ELSE <<segs[Min(later)]>>
        ELSE get_segment_by_index(segs, current_segment[1].index + 1)

get_previous_segment(segs, current_time) ==
    LET current_segment == get_segment_at_time(segs, current_time)
        earlier == {i \in 1..Len(segs) : current_time > segs[i].end_time}
    IN  IF current_segment = <<>>
        THEN IF earlier = {} THEN <<>>
             ELSE <<segs[CHOOSE i \in earlier : \A j \in earlier : j <= i]>>
        ELSE get_segment_by_index(segs, current_segment[1].index - 1)

----------------------------------------------------------------------------
(* marker_manager.py: the manager's state as one record, each method a      *)
(* function from the state before the call to the state after it           *)

\* notified lists the callbacks the handler has called, each by its place
\* in marker_change_callbacks
Self ==
    [heap |-> heap, markers |-> markers, undo_stack |-> undo_stack,
     redo_stack |-> redo_stack, selected_marker_index |-> selected_marker_index,
     segments |-> segments, status |-> status, saved |-> 0, duration |-> duration,
     marker_change_callbacks |-> marker_change_callbacks, notified |-> <<>>]

Say(s, text) == [s EXCEPT !.status = text]

\* the notification with no callback registered: nothing is recomputed
_trigger_with_no_callbacks(s) == s

\* what the application registers: SegmentManager._on_markers_changed, and
\* for any other listener whether its call returns or raises an Exception
OnMarkersChanged == "_on_markers_changed"

Callbacks == {OnMarkersChanged, "returns", "raises"}

\* callback() inside the try: SegmentManager's callback recomputes the
\* segments; raised tells whether the call ended in an exception
CallCallback(s, i) ==
    LET called == [s EXCEPT !.notified = Append(@, i)]
    IN  [raised |-> s.marker_change_callbacks[i] = "raises",
         s |-> IF s.marker_change_callbacks[i] = OnMarkersChanged
               THEN [called EXCEPT !.segments =
                        _calculate_segments(s.segments, s.heap, s.markers)]
               ELSE called]

register_marker_change_callback(s, callback) ==
    [s EXCEPT !.marker_change_callbacks = Append(@, callback)]

\* the loop without the try: the first exception ends the notification
_trigger_stopping_at_exception(s) ==
    LET raising == {i \in 1..Len(s.marker_change_callbacks) : CallCallback(s, i).raised}
        last == IF raising = {} THEN Len(s.marker_change_callbacks) ELSE Min(raising)
    IN  FoldRange(LAMBDA i, acc : CallCallback(acc, i).s, 1, last, s)

\* for callback in self.marker_change_callbacks: try: callback()
\* except Exception: logger.error(...) -- the exception is logged and dropped
_trigger_marker_change_callbacks(s) ==
    FoldRange(LAMBDA i, acc : CallCallback(acc, i).s,
              1, Len(s.marker_change_callbacks), s)

NotFixed(m) == ~IsFixed(m)

_renumber_user_markers(s) ==
    LET user_markers == SortByTime(s.heap, SelectSeqIds(s.heap, s.markers, NotFixed))
        fixed_markers == SelectSeqIds(s.heap, s.markers, IsFixed)
        \* for i, marker in enumerate(user_markers): marker["name"] = f"Marker{i + 1}"
        h == FoldRange(LAMBDA i, hp : [hp EXCEPT ![user_markers[i]].name = i],
                       1, Len(user_markers), s.heap)
        all_markers == SortByTime(h, user_markers \o fixed_markers)
    IN  _trigger_marker_change_callbacks(
            [s EXCEPT !.heap = h, !.markers = all_markers])

Operation(action, index, marker_data, from_time, to_time, markers_data) ==
    [action |-> action, index |-> index, marker_data |-> marker_data,
     from_time |-> from_time, to_time |-> to_time, markers_data |-> markers_data]

\* the push without self.redo_stack.clear()
push_to_undo_stack_keeping_redo(s, operation) ==
    LET pushed == Append(s.undo_stack, operation)
    IN  [s EXCEPT !.undo_stack = IF Len(pushed) > max_history THEN Tail(pushed)
                                 ELSE pushed]

\* the push with pop() in place of pop(0): the newest record is the one dropped
push_to_undo_stack_dropping_newest(s, operation) ==
    LET pushed == Append(s.undo_stack, operation)
    IN  [s EXCEPT !.undo_stack = IF Len(pushed) > max_history
                                 THEN SubSeq(pushed, 1, max_history)
                                 ELSE pushed,
                  !.redo_stack = <<>>]

push_to_undo_stack(s, operation) ==
    LET pushed == Append(s.undo_stack, operation)
    IN  [s EXCEPT !.undo_stack = IF Len(pushed) > max_history THEN Tail(pushed)
                                 ELSE pushed,
                  !.redo_stack = <<>>]

\* the spacing loop without its "continue" for Marker0 and Marker500
TooCloseToAny(s, t, skip) ==
    \E i \in 1..Len(s.markers) :
        /\ skip = <<>> \/ s.heap[s.markers[i]] # skip[1]
        /\ Abs(s.heap[s.markers[i]].time - t) < MIN_SPACING

\* some user marker lies within 1.0 s of t; skip is <<d>> when the loop
\* skips the markers equal (==) to the dict d being moved, else <<>>
TooClose(s, t, skip) ==
    \E i \in 1..Len(s.markers) :
        /\ skip = <<>> \/ s.heap[s.markers[i]] # skip[1]
        /\ ~IsFixed(s.heap[s.markers[i]])
        /\ Abs(s.heap[s.markers[i]].time - t) < MIN_SPACING

\* the capacity test made on the user markers alone
UserMarkersAtCapacity(s) ==
    Len(SelectSeq(s.markers, LAMBDA id : ~IsFixed(s.heap[id]))) >= max_markers

\* len(self.markers) >= self.max_markers
AtCapacity(s) == Len(s.markers) >= max_markers

\* the range test made against the end of the file, without the tolerance
ExceedsFile(s, t) == s.duration > 0 /\ t > s.duration

\* self.player.duration > 0 and t > self.player.duration - END_TOLERANCE
ExceedsRange(s, t) == s.duration > 0 /\ t > s.duration - END_TOLERANCE

NewMarker(marker_time) ==
    [time |-> marker_time, name |-> TempMarker, comment |-> <<>>, content |-> <<>>]

\* the time add_marker uses: the preview time when set, else the entry
\* fields when they hold a meaningful time, else the playback position
AddMarkerTime(preview, entry, current_pos) ==
    IF preview # <<>> THEN preview[1]
    ELSE IF entry.valid /\ entry.meaningful THEN entry.time
    ELSE current_pos

add_marker(s, preview, entry, current_pos) ==
    LET marker_time == AddMarkerTime(preview, entry, current_pos)
        placed == IF Abs(marker_time) < MIN_TIME THEN MIN_TIME ELSE marker_time
        id == NewId(s.heap)
        h1 == s.heap @@ (id :> NewMarker(placed))
        s1 == _renumber_user_markers(
                  [s EXCEPT !.heap = h1,
                            !.markers = SortByTime(h1, Append(s.markers, id))])
        s2 == [s1 EXCEPT !.selected_marker_index =
                             IndexOf(s1.heap, s1.markers, s1.heap[id])]
    IN  IF AtCapacity(s) THEN Say(s, "Maximum markers reached")
        ELSE IF ExceedsRange(s, marker_time)
            THEN Say(s, "Time exceeds valid range")
        ELSE IF TooClose(s, marker_time, <<>>)
            THEN Say(s, "Cannot add marker within 1 second of existing marker")
        ELSE Say(_trigger_marker_change_callbacks(s2), "Added marker")

\* add_marker_at_time once the checks have passed: clamp, insert, renumber,
\* select, record, notify
InsertAtTime(s, total_seconds) ==
    LET marker_time == IF Abs(total_seconds) < MIN_TIME THEN MIN_TIME ELSE total_seconds
        id == NewId(s.heap)
        h1 == s.heap @@ (id :> NewMarker(marker_time))
        s1 == _renumber_user_markers(
                  [s EXCEPT !.heap = h1,
                            !.markers = SortByTime(h1, Append(s.markers, id))])
        index == IndexOf(s1.heap, s1.markers, s1.heap[id])
        copy == NewId(s1.heap)
        s2 == push_to_undo_stack(
                  [s1 EXCEPT !.selected_marker_index = index,
                             !.heap = s1.heap @@ (copy :> s1.heap[id])],
                  Operation("add_marker", index, copy, 0, 0, <<>>))
    IN  Say(_trigger_marker_change_callbacks(s2), "Added marker")

add_marker_at_time(s, entry) ==
    LET total_seconds == entry.time
    IN  IF AtCapacity(s) THEN Say(s, "Maximum markers reached")
        ELSE IF ~entry.valid THEN Say(s, "Invalid time format")
        ELSE IF ExceedsRange(s, total_seconds)
            THEN Say(s, "Time exceeds valid range")
        ELSE IF TooClose(s, total_seconds, <<>>)
            THEN Say(s, "Cannot add marker within 1 second of existing marker")
        ELSE InsertAtTime(s, total_seconds)

\* the collection of the markers to delete without its test of the name
DeletableAny(s, selection) == {idx \in selection : idx < Len(s.markers)}

\* indices of the selection that name an unprotected marker, ascending
Deletable(s, selection) ==
    {idx \in selection :
        idx < Len(s.markers) /\ ~IsFixed(s.heap[s.markers[idx + 1]])}

\* the elements of a set of integers as a descending sequence
RECURSIVE Descending(_)
Descending(S) ==
    IF S = {} THEN <<>>
    ELSE LET top == CHOOSE x \in S : \A y \in S : y <= x
         IN  <<top>> \o Descending(S \ {top})

\* del self.markers[idx] for each idx, highest first
RECURSIVE DeleteEach(_, _)
DeleteEach(m, idxs) ==
    IF idxs = <<>> THEN m ELSE DeleteEach(RemoveAt(m, Head(idxs) + 1), Tail(idxs))

\* the record keeps the deleted dicts themselves; no code reads them again,
\* so the record holds their values at the time of the deletion
delete_selected_marker(s, selection, confirmed) ==
    LET markers_to_delete == Descending(Deletable(s, selection))
        markers_data == [k \in 1..Len(markers_to_delete) |->
                            s.heap[s.markers[markers_to_delete[k] + 1]]]
        s1 == push_to_undo_stack(
                  s, Operation("delete_markers", None, NoRecordData, 0, 0, markers_data))
        s2 == _renumber_user_markers(
                  [s1 EXCEPT !.markers = DeleteEach(s.markers, markers_to_delete)])
    IN  IF selection = {} THEN Say(s, "Please select a marker to delete")
        ELSE IF markers_to_delete = <<>> THEN Say(s, "Selected markers are protected")
        ELSE IF ~confirmed THEN s
        ELSE Say(_trigger_marker_change_callbacks(s2), "Deleted markers")

\* delete_all_markers with its record pushed ahead of the test for user markers
delete_all_markers_recording_first(s, confirmed) ==
    LET user_markers == SelectSeqIds(s.heap, s.markers, NotFixed)
        s1 == push_to_undo_stack(
                  s, Operation("delete_all_markers", None, NoRecordData, 0, 0,
                               Dicts(s.heap, s.markers)))
        s2 == [s1 EXCEPT !.markers = SelectSeqIds(s.heap, s.markers, IsFixed)]
    IN  IF user_markers = <<>> THEN Say(s1, "No user markers to delete")
        ELSE IF ~confirmed THEN s
        ELSE Say(_trigger_marker_change_callbacks(s2), "All user markers deleted")

\* markers_backup is a list of copies that nothing mutates: kept by value
delete_all_markers(s, confirmed) ==
    LET user_markers == SelectSeqIds(s.heap, s.markers, NotFixed)
        s1 == push_to_undo_stack(
                  s, Operation("delete_all_markers", None, NoRecordData, 0, 0,
                               Dicts(s.heap, s.markers)))
        s2 == [s1 EXCEPT !.markers = SelectSeqIds(s.heap, s.markers, IsFixed)]
    IN  IF user_markers = <<>> THEN Say(s, "No user markers to delete")
        ELSE IF ~confirmed THEN s
        ELSE Say(_trigger_marker_change_callbacks(s2), "All user markers deleted")

\* [marker.copy() for marker in markers_data]: one new object per dict
CopyAll(h, dicts) ==
    LET base == Cardinality(DOMAIN h) + 1 + Len(dicts)
    IN  [heap |-> h @@ [id \in (base + 1)..(base + Len(dicts)) |-> dicts[id - base]],
         ids |-> [i \in 1..Len(dicts) |-> base + i]]

\* positions (1-based) of the markers the undo of an add matches by time and name
AddedMatches(s, marker_to_remove) ==
    {i \in 1..Len(s.markers) :
        /\ Abs(s.heap[s.markers[i]].time - marker_to_remove.time) < MIN_TIME
        /\ s.heap[s.markers[i]].name = marker_to_remove.name}

UndoMove(s, operation) ==
    LET h == [s.heap EXCEPT ![s.markers[operation.index + 1]].time = operation.from_time]
    IN  IF operation.index < Len(s.markers)
        THEN Say(_trigger_marker_change_callbacks(
                     [s EXCEPT !.heap = h, !.markers = SortByTime(h, s.markers)]),
                 "Undo: Moved marker back")
        ELSE s

UndoAdd(s, operation) ==
    LET found == AddedMatches(s, s.heap[operation.marker_data])
        kept == IF found = {} THEN s.markers ELSE RemoveAt(s.markers, Min(found))
        s1 == _renumber_user_markers([s EXCEPT !.markers = SortByTime(s.heap, kept)])
    IN  Say(_trigger_marker_change_callbacks(s1), "Undo: Removed marker")

UndoDelete(s, operation) ==
    LET inserted == InsertAt(s.markers, operation.index, operation.marker_data)
    IN  Say(_trigger_marker_change_callbacks(
                [s EXCEPT !.markers = SortByTime(s.heap, inserted)]),
            "Undo: Restored marker")

UndoDeleteAll(s, operation) ==
    LET copies == CopyAll(s.heap, operation.markers_data)
    IN  Say(_trigger_marker_change_callbacks(
                [s EXCEPT !.heap = copies.heap, !.markers = copies.ids]),
            "Undo: Restored markers")

\* undo_action with the emptiness test made after the redo stack is written
undo_action_moving_first(s) ==
    LET operation == s.undo_stack[Len(s.undo_stack)]
        s1 == [s EXCEPT !.undo_stack = SubSeq(s.undo_stack, 1, Len(s.undo_stack) - 1),
                        !.redo_stack = Append(s.redo_stack, operation)]
        s2 == CASE operation.action = "move_marker" -> UndoMove(s1, operation)
                [] operation.action = "add_marker" -> UndoAdd(s1, operation)
                [] operation.action = "delete_marker" -> UndoDelete(s1, operation)
                [] operation.action = "delete_all_markers" -> UndoDeleteAll(s1, operation)
                [] OTHER -> s1
    IN  IF s.undo_stack = <<>>
        THEN Say([s EXCEPT !.redo_stack = <<>>], "Nothing to undo")
        ELSE [s2 EXCEPT !.saved = s2.saved + 1]

undo_action(s) ==
    LET operation == s.undo_stack[Len(s.undo_stack)]
        s1 == [s EXCEPT !.undo_stack = SubSeq(s.undo_stack, 1, Len(s.undo_stack) - 1),
                        !.redo_stack = Append(s.redo_stack, operation)]
        s2 == CASE operation.action = "move_marker" -> UndoMove(s1, operation)
                [] operation.action = "add_marker" -> UndoAdd(s1, operation)
                [] operation.action = "delete_marker" -> UndoDelete(s1, operation)
                [] operation.action = "delete_all_markers" -> UndoDeleteAll(s1, operation)
                [] OTHER -> s1
    IN  IF s.undo_stack = <<>> THEN Say(s, "Nothing to undo")
        ELSE [s2 EXCEPT !.saved = s2.saved + 1]

RedoMove(s, operation) ==
    LET h == [s.heap EXCEPT ![s.markers[operation.index + 1]].time = operation.to_time]
    IN  IF operation.index < Len(s.markers)
        THEN Say(_trigger_marker_change_callbacks(
                     [s EXCEPT !.heap = h, !.markers = SortByTime(h, s.markers)]),
                 "Redo: Moved marker")
        ELSE s

RedoAdd(s, operation) ==
    LET appended == Append(s.markers, operation.marker_data)
        s1 == _renumber_user_markers([s EXCEPT !.markers = SortByTime(s.heap, appended)])
    IN  Say(_trigger_marker_change_callbacks(s1), "Redo: Added marker")

RedoDelete(s, operation) ==
    IF operation.index < Len(s.markers)
    THEN Say(_trigger_marker_change_callbacks(
                 [s EXCEPT !.markers =
                      SortByTime(s.heap, RemoveAt(s.markers, operation.index + 1))]),
             "Redo: Removed marker")
    ELSE s

RedoDeleteAll(s, operation) ==
    Say(_trigger_marker_change_callbacks([s EXCEPT !.markers = <<>>]),
        "Redo: Cleared all markers")

\* redo_action without its call of player.save_marker_data
redo_action_without_save(s) ==
    LET operation == s.redo_stack[Len(s.redo_stack)]
        s1 == [s EXCEPT !.redo_stack = SubSeq(s.redo_stack, 1, Len(s.redo_stack) - 1),
                        !.undo_stack = Append(s.undo_stack, operation)]
    IN  IF s.redo_stack = <<>> THEN Say(s, "Nothing to redo")
        ELSE CASE operation.action = "move_marker" -> RedoMove(s1, operation)
               [] operation.action = "add_marker" -> RedoAdd(s1, operation)
               [] operation.action = "delete_marker" -> RedoDelete(s1, operation)
               [] operation.action = "delete_all_markers" -> RedoDeleteAll(s1, operation)
               [] OTHER -> s1

redo_action(s) ==
    LET operation == s.redo_stack[Len(s.redo_stack)]
        s1 == [s EXCEPT !.redo_stack = SubSeq(s.redo_stack, 1, Len(s.redo_stack) - 1),
                        !.undo_stack = Append(s.undo_stack, operation)]
        s2 == CASE operation.action = "move_marker" -> RedoMove(s1, operation)
                [] operation.action = "add_marker" -> RedoAdd(s1, operation)
                [] operation.action = "delete_marker" -> RedoDelete(s1, operation)
                [] operation.action = "delete_all_markers" -> RedoDeleteAll(s1, operation)
                [] OTHER -> s1
    IN  IF s.redo_stack = <<>> THEN Say(s, "Nothing to redo")
        ELSE [s2 EXCEPT !.saved = s2.saved + 1]

\* sorted(self.markers, key=time) and the first marker after current_pos
jump_to_next_marker(s, current_pos) ==
    LET sorted_markers == SortByTime(s.heap, s.markers)
        after == {i \in 1..Len(sorted_markers) : s.heap[sorted_markers[i]].time > current_pos}
    IN  IF s.markers = <<>> THEN Say(s, "No file loaded or no markers available")
        ELSE IF after = {} THEN Say(s, "No next marker found")
        ELSE Say([s EXCEPT !.selected_marker_index = Min(after) - 1],
                 "Jumped to next marker")

jump_to_previous_marker(s, current_pos) ==
    LET sorted_markers == SortByTime(s.heap, s.markers)
        before == {i \in 1..Len(sorted_markers) : s.heap[sorted_markers[i]].time < current_pos}
    IN  IF s.markers = <<>> THEN Say(s, "No file loaded or no markers available")
        ELSE IF before = {} THEN Say(s, "No previous marker found")
        ELSE Say([s EXCEPT !.selected_marker_index =
                               (CHOOSE i \in before : \A j \in before : j <= i) - 1],
                 "Jumped to previous marker")

\* the first marker at the smallest distance from current_pos (1-based)
Nearest(s, current_pos) ==
    LET distance == [i \in 1..Len(s.markers) |->
                        Abs(s.heap[s.markers[i]].time - current_pos)]
        min_distance == Min({distance[i] : i \in 1..Len(s.markers)})
    IN  Min({i \in 1..Len(s.markers) : distance[i] = min_distance})

delete_nearest_marker(s, current_pos, confirmed) ==
    LET marker_idx == Nearest(s, current_pos) - 1
        marker == s.heap[s.markers[marker_idx + 1]]
        copy == NewId(s.heap)
        s1 == push_to_undo_stack(
                  [s EXCEPT !.heap = s.heap @@ (copy :> marker)],
                  Operation("delete_marker", marker_idx, copy, 0, 0, <<>>))
        s2 == [s1 EXCEPT !.markers = RemoveAt(s.markers, marker_idx + 1)]
    IN  IF s.markers = <<>> THEN Say(s, "No file loaded or no markers available")
        ELSE IF IsFixed(marker) THEN Say(s, "Cannot delete protected marker")
        ELSE IF ~confirmed THEN s
        ELSE Say(_trigger_marker_change_callbacks(s2), "Deleted nearest marker")

\* the move without the self.markers.sort that follows the new time
MoveSelectedInPlace(s, total_seconds) ==
    LET id == s.markers[s.selected_marker_index + 1]
        original_time == s.heap[id].time
        new_time == IF total_seconds < MIN_TIME THEN MIN_TIME ELSE total_seconds
        s1 == push_to_undo_stack(
                  s, Operation("move_marker", s.selected_marker_index, NoRecordData,
                               original_time, new_time, <<>>))
        h == [s.heap EXCEPT ![id].time = new_time]
        s2 == [s1 EXCEPT !.heap = h,
                         !.selected_marker_index = IndexOf(h, s.markers, h[id])]
    IN  Say(_trigger_marker_change_callbacks(s2), "Updated marker")

\* update_selected_marker_time once the checks have passed: clamp, record,
\* retime, re-sort, reselect, notify
MoveSelected(s, total_seconds) ==
    LET id == s.markers[s.selected_marker_index + 1]
        original_time == s.heap[id].time
        new_time == IF total_seconds < MIN_TIME THEN MIN_TIME ELSE total_seconds
        s1 == push_to_undo_stack(
                  s, Operation("move_marker", s.selected_marker_index, NoRecordData,
                               original_time, new_time, <<>>))
        h == [s.heap EXCEPT ![id].time = new_time]
        sorted == SortByTime(h, s.markers)
        s2 == [s1 EXCEPT !.heap = h, !.markers = sorted,
                         !.selected_marker_index = IndexOf(h, sorted, h[id])]
    IN  Say(_trigger_marker_change_callbacks(s2), "Updated marker")

\* the move with its undo record pushed ahead of the spacing check
update_selected_marker_time_recording_first(s, entry) ==
    LET total_seconds == entry.time
        id == s.markers[s.selected_marker_index + 1]
        recorded == push_to_undo_stack(
                        s, Operation("move_marker", s.selected_marker_index, NoRecordData,
                                     s.heap[id].time, total_seconds, <<>>))
    IN  IF s.selected_marker_index = None \/ s.selected_marker_index >= Len(s.markers)
            THEN Say(s, "Please select a marker first")
        ELSE IF ~entry.valid THEN Say(s, "Invalid time format")
        ELSE IF ExceedsRange(s, total_seconds)
            THEN Say(s, "Time exceeds valid range")
        ELSE IF TooClose(s, total_seconds, <<s.heap[id]>>)
            THEN Say(recorded, "Cannot update marker within 1 second of existing marker")
        ELSE MoveSelected(s, total_seconds)

update_selected_marker_time(s, entry) ==
    LET total_seconds == entry.time
        id == s.markers[s.selected_marker_index + 1]
    IN  IF s.selected_marker_index = None \/ s.selected_marker_index >= Len(s.markers)
            THEN Say(s, "Please select a marker first")
        ELSE IF ~entry.valid THEN Say(s, "Invalid time format")
        ELSE IF ExceedsRange(s, total_seconds)
            THEN Say(s, "Time exceeds valid range")
        ELSE IF TooClose(s, total_seconds, <<s.heap[id]>>)
            THEN Say(s, "Cannot update marker within 1 second of existing marker")
        ELSE MoveSelected(s, total_seconds)

\* idx is the first index of the listbox selection
on_marker_select(s, idx) ==
    IF IsFixed(s.heap[s.markers[idx + 1]]) THEN Say(s, "Cannot select fixed marker")
    ELSE Say([s EXCEPT !.selected_marker_index = idx], "Selected marker")

edit_marker_by_index(s, idx) ==
    IF idx < 0 \/ idx >= Len(s.markers) THEN s
    ELSE Say([s EXCEPT !.selected_marker_index = idx], "Editing marker")

----------------------------------------------------------------------------
(* playback.py: PlaybackController. The controller with the status label    *)
(* is one record, each method a function on it. The other labels, the      *)
(* progress display, the loop counters and play_pause belong to the        *)
(* MP3Player object and are left out.                                      *)

\* what send_command can return: None is <<>> and a dict d is <<d>>; the
\* value of a key is the sequence of the words of its text
NoResponse == <<>>

Dict(key, words) == <<[k \in {key} |-> words]>>

Responses ==
    {NoResponse,
     Dict("error", <<"success">>),
     Dict("event", <<"playback-restart">>),
     Dict("error", <<"property", "unavailable">>),
     Dict("error", <<"error", "running", "command">>),
     Dict("error", <<"mpv:", "error", "running", "command", "seek">>),
     Dict("error", <<"socket_timeout">>)}

\* part in text
Mentions(text, part) ==
    \E i \in 0..(Len(text) - Len(part)) : SubSeq(text, i + 1, i + Len(part)) = part

\* response and 'error' in response and response['error'] != 'success'
IsError(response) ==
    /\ response # NoResponse
    /\ "error" \in DOMAIN response[1]
    /\ response[1].error # <<"success">>

\* the test that retries on every error
ShouldRetryAnyError(response) == TRUE

\* response['error'] == 'property unavailable'
\*     or 'error running command' in str(response['error'])
ShouldRetry(response) ==
    \/ response[1].error = <<"property", "unavailable">>
    \/ Mentions(response[1].error, <<"error", "running", "command">>)

\* the loop from the given attempt on; replies[k] is what the k-th call of
\* send_command returns, sent the replies the loop has consumed
RECURSIVE Attempts(_, _, _)
Attempts(replies, attempt, retries) ==
    IF attempt >= retries
    THEN [response |-> Dict("error", <<"failed", "after", ToString(retries), "attempts">>),
          sent |-> SubSeq(replies, 1, retries)]
    ELSE LET response == replies[attempt + 1]
         IN  IF IsError(response) /\ ShouldRetry(response)
             THEN Attempts(replies, attempt + 1, retries)
             ELSE [response |-> response, sent |-> SubSeq(replies, 1, attempt + 1)]

send_command_with_retry(replies, retries) == Attempts(replies, 0, retries)

\* PlaybackController.__init__, with player.current_file; sent and response
\* are the replies send_command gave during the last handler and what
\* send_command_with_retry returned to it
PlaybackController(current_file) ==
    [segment_start |-> 0, segment_end |-> 0, segment_enabled |-> FALSE,
     is_in_segment_playback |-> FALSE, current_file |-> current_file,
     sent |-> <<>>, response |-> NoResponse]

Controller ==
    [segment_start |-> playback.segment_start, segment_end |-> playback.segment_end,
     segment_enabled |-> playback.segment_enabled,
     is_in_segment_playback |-> playback.is_in_segment_playback,
     current_file |-> playback.current_file,
     sent |-> <<>>, response |-> NoResponse, status |-> status]

set_segment_start(c, current_pos) ==
    IF ~c.current_file THEN Say(c, "No file loaded")
    ELSE Say([c EXCEPT !.segment_start = current_pos], "Segment start set")

set_segment_end(c, current_pos) ==
    IF ~c.current_file THEN Say(c, "No file loaded")
    ELSE IF current_pos <= c.segment_start THEN Say(c, "End must be after start")
    ELSE Say([c EXCEPT !.segment_end = current_pos], "Segment end set")

play_segment(c, replies) ==
    IF ~c.current_file THEN Say(c, "No file loaded")
    ELSE IF c.segment_start >= c.segment_end
    THEN Say(c, "Invalid segment: set start before end")
    ELSE LET seek == send_command_with_retry(replies, max_retries)
         IN  Say([c EXCEPT !.segment_enabled = TRUE,
                           !.is_in_segment_playback = TRUE,
                           !.sent = seek.sent,
                           !.response = seek.response],
                 "Playing segment")

clear_segment(c) ==
    Say([c EXCEPT !.segment_start = 0, !.segment_end = 0,
                  !.is_in_segment_playback = FALSE],
        "Segment cleared")

----------------------------------------------------------------------------
(* faster_whisper_transcriber.py: transcribe_async and the thread it starts *)

\* self.transcribe returns the text, returns None, or raises
Outcomes == {"text", "None", "raises"}

\* the callbacks handed to transcribe_async: whether on_error is given, and
\* whether a call of the callback returns or raises an Exception
OnCompleteKinds == {"returns", "raises"}

OnErrorKinds == {"absent", "returns", "raises"}

\* threading.Thread(target=run_transcription, daemon=True).start():
\* calls lists the callbacks called on the thread, raised tells whether an
\* exception is propagating
transcribe_async(on_complete, on_error) ==
    [on_complete |-> on_complete, on_error |-> on_error,
     pc |-> "started", calls |-> <<>>, raised |-> FALSE]

\* callback(argument) on the worker thread
Invoke(t, callback, argument) ==
    [t EXCEPT !.calls = Append(@, [callback |-> callback, argument |-> argument]),
              !.raised = t[callback] = "raises"]

\* if on_error: on_error(message); on_complete(None)
ReportFailure(t, message) ==
    LET told == IF t.on_error # "absent" THEN Invoke(t, "on_error", message) ELSE t
    IN  IF told.raised THEN told ELSE Invoke(told, "on_complete", "None")

\* the body of run_transcription: the try block, then the except block when
\* the try block raised; an exception that leaves the except block ends the
\* thread
run_transcription(t, outcome) ==
    LET tried == IF outcome = "raises" THEN [t EXCEPT !.raised = TRUE]
                 ELSE IF outcome = "text" THEN Invoke(t, "on_complete", "text")
                 ELSE ReportFailure(t, "Transcription returned None")
        ended == IF tried.raised
                 THEN ReportFailure([tried EXCEPT !.raised = FALSE], "str(e)")
                 ELSE tried
    IN  [ended EXCEPT !.pc = IF ended.raised THEN "died" ELSE "finished"]

----------------------------------------------------------------------------
(* The state machine *)

\* Object ids carry no meaning: after each handler the objects still
\* referenced are renumbered in the order in which the marker list, the undo
\* stack and the redo stack first mention them, and the others are dropped.
RecordRefs(stack) ==
    LET with_data == SelectSeq(stack, LAMBDA r : r.marker_data # NoRecordData)
    IN  [i \in 1..Len(with_data) |-> with_data[i].marker_data]

FirstMentions(refs) ==
    LET firsts == SelectSeq([i \in 1..Len(refs) |-> i],
                            LAMBDA i : \A j \in 1..(i - 1) : refs[j] # refs[i])
    IN  IF Cardinality(Range(refs)) = Len(refs) THEN refs
        ELSE [k \in 1..Len(firsts) |-> refs[firsts[k]]]

PlaceIn(order, id) == CHOOSE i \in 1..Len(order) : order[i] = id

RenumberStack(stack, order) ==
    [i \in 1..Len(stack) |->
        IF stack[i].marker_data = NoRecordData THEN stack[i]
        ELSE [stack[i] EXCEPT !.marker_data = PlaceIn(order, stack[i].marker_data)]]

Commit(s) ==
    LET listed == FirstMentions(s.markers)
        others == FirstMentions(
                      SelectSeq(RecordRefs(s.undo_stack) \o RecordRefs(s.redo_stack),
                                LAMBDA id : id \notin Range(listed)))
        order == listed \o others
        same == /\ DOMAIN s.heap = 1..Len(order)
                /\ \A i \in 1..Len(order) : order[i] = i
    IN  /\ calls_left > 0
        /\ calls_left' = calls_left - 1
        /\ heap' = IF same THEN s.heap ELSE [i \in 1..Len(order) |-> s.heap[order[i]]]
        /\ markers' = IF same THEN s.markers
                      ELSE IF Len(listed) = Len(s.markers)
                           THEN [i \in 1..Len(s.markers) |-> i]
                           ELSE [i \in 1..Len(s.markers) |-> PlaceIn(order, s.markers[i])]
        /\ undo_stack' = IF same THEN s.undo_stack ELSE RenumberStack(s.undo_stack, order)
        /\ redo_stack' = IF same THEN s.redo_stack ELSE RenumberStack(s.redo_stack, order)
        /\ selected_marker_index' = s.selected_marker_index
        /\ segments' = s.segments
        /\ status' = s.status
        /\ saved' = s.saved
        /\ duration' = s.duration
        /\ marker_change_callbacks' = s.marker_change_callbacks
        /\ UNCHANGED <<playback, threads>>

\* a file as MP3Player loads it: Marker0 at 0, n user markers named in
\* time order, Marker500 at the end of the file
LoadedHeap(n, file_duration) ==
    [id \in 1..(n + 2) |->
        [time |-> IF id = 1 THEN 0
                  ELSE IF id = n + 2 THEN file_duration
                  ELSE LoadedFrom + (id - 2) * MIN_SPACING,
         name |-> IF id = 1 THEN Marker0
                  ELSE IF id = n + 2 THEN Marker500
                  ELSE id - 1,
         comment |-> <<>>, content |-> <<>>]]

LoadedFile(n, file_duration, max_calls) ==
    /\ heap = LoadedHeap(n, file_duration)
    /\ markers = [i \in 1..(n + 2) |-> i]
    /\ undo_stack = <<>>
    /\ redo_stack = <<>>
    /\ selected_marker_index = None
    /\ segments = _calculate_segments(<<>>, LoadedHeap(n, file_duration),
                                      [i \in 1..(n + 2) |-> i])
    /\ status = "Loaded"
    /\ saved = 0
    /\ duration = file_duration
    /\ calls_left = max_calls

\* the application with its SegmentManager registered, the playback
\* controller as constructed and no transcription started
Loaded(n, file_duration, max_calls) ==
    /\ LoadedFile(n, file_duration, max_calls)
    /\ marker_change_callbacks = <<OnMarkersChanged>>
    /\ playback = PlaybackController(TRUE)
    /\ threads = <<>>

Init == Loaded(0, ShortFile, MaxCalls)

\* what the three time entry fields can hold: a time, the untouched
\* defaults "0" "0" "00", or text that int() rejects
DefaultEntry == [valid |-> TRUE, meaningful |-> FALSE, time |-> 0]

Entries ==
    {[valid |-> TRUE, meaningful |-> TRUE, time |-> t] : t \in EntryTimes}
        \cup {DefaultEntry, [valid |-> FALSE, meaningful |-> TRUE, time |-> 0]}

Previews == {<<>>} \cup {<<t>> : t \in PreviewTimes}

IndexInputs == 0..MaxIndexInput

Selections == {S \in SUBSET IndexInputs : Cardinality(S) <= 2}

\* add_marker reads the entry fields only when no preview time is set, and
\* the playback position only when the fields give no time: one input for
\* each value it does not read
AddInputs ==
    {in \in Previews \X Entries \X Positions :
        /\ in[1] # <<>> => in[2] = DefaultEntry
        /\ (in[1] # <<>> \/ (in[2].valid /\ in[2].meaningful)) => in[3] = Min(Positions)}

AddMarker ==
    \E in \in AddInputs : Commit(add_marker(Self, in[1], in[2], in[3]))

AddMarkerAtTime ==
    \E entry \in Entries :
        Commit(add_marker_at_time(Self, entry))

UpdateSelectedMarkerTime ==
    \E entry \in Entries :
        Commit(update_selected_marker_time(Self, entry))

DeleteSelectedMarker ==
    \E selection \in Selections, confirmed \in BOOLEAN :
        Commit(delete_selected_marker(Self, selection, confirmed))

DeleteNearestMarker ==
    \E current_pos \in Positions, confirmed \in BOOLEAN :
        Commit(delete_nearest_marker(Self, current_pos, confirmed))

DeleteAllMarkers ==
    \E confirmed \in BOOLEAN :
        Commit(delete_all_markers(Self, confirmed))

UndoAction == Commit(undo_action(Self))

RedoAction == Commit(redo_action(Self))

JumpToNextMarker ==
    \E current_pos \in Positions :
        Commit(jump_to_next_marker(Self, current_pos))

JumpToPreviousMarker ==
    \E current_pos \in Positions :
        Commit(jump_to_previous_marker(Self, current_pos))

OnMarkerSelect ==
    \E idx \in IndexInputs :
        /\ idx < Len(markers)
        /\ Commit(on_marker_select(Self, idx))

EditMarkerByIndex ==
    \E idx \in IndexInputs :
        /\ idx < Len(markers)
        /\ ~IsFixed(heap[markers[idx + 1]])
        /\ Commit(edit_marker_by_index(Self, idx))

Next ==
    \/ AddMarker
    \/ AddMarkerAtTime
    \/ UpdateSelectedMarkerTime
    \/ DeleteSelectedMarker
    \/ DeleteNearestMarker
    \/ DeleteAllMarkers
    \/ UndoAction
    \/ RedoAction
    \/ JumpToNextMarker
    \/ JumpToPreviousMarker
    \/ OnMarkerSelect
    \/ EditMarkerByIndex

Spec == Init /\ [][Next]_vars

\* a long file loaded with as many markers as the manager admits
InitFull == Loaded(max_markers - 2, LongFile, MaxCallsFull)

NextFull ==
    \/ AddMarker
    \/ AddMarkerAtTime
    \/ DeleteNearestMarker
    \/ DeleteAllMarkers
    \/ UndoAction
    \/ RedoAction

SpecFull == InitFull /\ [][NextFull]_vars

\* a session with a long history: on a short file one marker is added at
\* 1.0 s and then moved to and fro between 0.0 s (stored as 0.001) and 1.0 s,
\* MinMoves to MaxMoves times, before the calls of the run proper are made
TimeEntry(t) == [valid |-> TRUE, meaningful |-> TRUE, time |-> t]

InitHistory ==
    \E moves \in MinMoves..MaxMoves :
        Loaded(0, ShortFile, MaxCallsHistory + 1 + moves)

OpenSession ==
    /\ calls_left > MaxCallsHistory
    /\ Commit(IF selected_marker_index = None
              THEN add_marker_at_time(Self, TimeEntry(MIN_SPACING))
              ELSE update_selected_marker_time(
                       Self,
                       TimeEntry(IF heap[markers[selected_marker_index + 1]].time
                                        = MIN_SPACING
                                 THEN 0 ELSE MIN_SPACING)))

NextHistory ==
    \/ OpenSession
    \/ calls_left <= MaxCallsHistory /\ AddMarkerAtTime
    \/ calls_left <= MaxCallsHistory /\ UpdateSelectedMarkerTime
    \/ calls_left <= MaxCallsHistory /\ DeleteNearestMarker
    \/ calls_left <= MaxCallsHistory /\ DeleteAllMarkers
    \/ calls_left <= MaxCallsHistory /\ UndoAction
    \/ calls_left <= MaxCallsHistory /\ RedoAction

SpecHistory == InitHistory /\ [][NextHistory]_vars

\* the transcription panel: the text kept for segment idx replaces the
\* segment's content; nothing else changes
save_transcription(s, idx, text) ==
    IF idx < 0 \/ idx >= Len(s.segments) THEN s
    ELSE Say([s EXCEPT !.segments[idx + 1].content = text], "Transcription saved")

SaveTranscription ==
    \E idx \in IndexInputs, text \in Texts :
        /\ idx < Len(segments)
        /\ Commit(save_transcription(Self, idx, text))

\* a short file with one user marker, its segments
\* transcribed or left empty
LoadedTimes == {<<2000>>}

Contents == Texts \cup {<<>>}

TranscribedHeap(times) ==
    [id \in 1..(Len(times) + 2) |->
        [time |-> IF id = 1 THEN 0
                  ELSE IF id = Len(times) + 2 THEN ShortFile
                  ELSE times[id - 1],
         name |-> IF id = 1 THEN Marker0
                  ELSE IF id = Len(times) + 2 THEN Marker500
                  ELSE id - 1,
         comment |-> <<>>, content |-> <<>>]]

InitContent ==
    \E times \in LoadedTimes :
        \E texts \in [1..(Len(times) + 1) -> Contents] :
            LET h == TranscribedHeap(times)
                m == [i \in 1..(Len(times) + 2) |-> i]
                empty == _calculate_segments(<<>>, h, m)
            IN  /\ heap = h
                /\ markers = m
                /\ undo_stack = <<>>
                /\ redo_stack = <<>>
                /\ selected_marker_index = None
                /\ segments = [i \in 1..Len(empty) |->
                                  [empty[i] EXCEPT !.content = texts[i]]]
                /\ status = "Loaded"
                /\ saved = 0
                /\ duration = ShortFile
                /\ calls_left = MaxCallsContent
                /\ marker_change_callbacks = <<OnMarkersChanged>>
                /\ playback = PlaybackController(TRUE)
                /\ threads = <<>>

NextContent ==
    \/ AddMarker
    \/ AddMarkerAtTime
    \/ UpdateSelectedMarkerTime
    \/ DeleteSelectedMarker
    \/ DeleteNearestMarker
    \/ DeleteAllMarkers
    \/ UndoAction
    \/ RedoAction
    \/ OnMarkerSelect
    \/ SaveTranscription

SpecContent == InitContent /\ [][NextContent]_vars

\* a MarkerManager with a short file loaded and no listener registered yet:
\* the listeners are registered during the run
InitCallbacks ==
    /\ LoadedFile(0, ShortFile, MaxCallsCallbacks)
    /\ marker_change_callbacks = <<>>
    /\ playback = PlaybackController(TRUE)
    /\ threads = <<>>

RegisterMarkerChangeCallback ==
    \E callback \in Callbacks :
        /\ Len(marker_change_callbacks) < MaxCallbacks
        /\ marker_change_callbacks'
               = register_marker_change_callback(Self, callback).marker_change_callbacks
        /\ UNCHANGED <<heap, markers, undo_stack, redo_stack, selected_marker_index,
                       segments, status, saved, duration, calls_left, playback, threads>>

NextCallbacks ==
    \/ RegisterMarkerChangeCallback
    \/ AddMarkerAtTime
    \/ UpdateSelectedMarkerTime
    \/ DeleteNearestMarker
    \/ DeleteAllMarkers
    \/ UndoAction
    \/ RedoAction

SpecCallbacks == InitCallbacks /\ [][NextCallbacks]_vars

\* the application before a file is loaded
Unloaded ==
    /\ heap = <<>>
    /\ markers = <<>>
    /\ undo_stack = <<>>
    /\ redo_stack = <<>>
    /\ selected_marker_index = None
    /\ segments = <<>>
    /\ status = "Ready"
    /\ saved = 0
    /\ duration = 0
    /\ calls_left = 0

\* the segment buttons, pressed with or without a file loaded
InitPlayback ==
    \E current_file \in BOOLEAN :
        /\ IF current_file THEN LoadedFile(0, ShortFile, 0) ELSE Unloaded
        /\ marker_change_callbacks = <<OnMarkersChanged>>
        /\ playback = PlaybackController(current_file)
        /\ threads = <<>>

\* what mpv answers to the calls of send_command one handler can make; a
\* reply the loop cannot reach is fixed to None
Replies ==
    {r \in [1..max_retries -> Responses] :
        \A i \in 2..max_retries :
            (\E j \in 1..(i - 1) : ~(IsError(r[j]) /\ ShouldRetry(r[j])))
                => r[i] = NoResponse}

CommitPlayback(c) ==
    /\ playback' = [f \in DOMAIN playback |-> c[f]]
    /\ status' = c.status
    /\ UNCHANGED <<heap, markers, undo_stack, redo_stack, selected_marker_index,
                   segments, saved, duration, calls_left, marker_change_callbacks,
                   threads>>

SetSegmentStart ==
    \E current_pos \in Positions :
        CommitPlayback(set_segment_start(Controller, current_pos))

SetSegmentEnd ==
    \E current_pos \in Positions :
        CommitPlayback(set_segment_end(Controller, current_pos))

PlaySegment ==
    \E replies \in Replies :
        CommitPlayback(play_segment(Controller, replies))

ClearSegment == CommitPlayback(clear_segment(Controller))

NextPlayback ==
    \/ SetSegmentStart
    \/ SetSegmentEnd
    \/ PlaySegment
    \/ ClearSegment

SpecPlayback == InitPlayback /\ [][NextPlayback]_vars

\* transcriptions started from the loaded application, each on its own thread
InitTranscribe == Loaded(0, ShortFile, 0)

TranscribeAsync ==
    \E on_complete \in OnCompleteKinds, on_error \in OnErrorKinds :
        /\ Len(threads) < MaxThreads
        /\ threads' = Append(threads, transcribe_async(on_complete, on_error))
        /\ UNCHANGED <<heap, markers, undo_stack, redo_stack, selected_marker_index,
                       segments, status, saved, duration, calls_left,
                       marker_change_callbacks, playback>>

RunTranscription ==
    \E i \in 1..Len(threads), outcome \in Outcomes :
        /\ threads[i].pc = "started"
        /\ threads' = [threads EXCEPT ![i] = run_transcription(@, outcome)]
        /\ UNCHANGED <<heap, markers, undo_stack, redo_stack, selected_marker_index,
                       segments, status, saved, duration, calls_left,
                       marker_change_callbacks, playback>>

NextTranscribe ==
    \/ TranscribeAsync
    \/ RunTranscription

SpecTranscribe == InitTranscribe /\ [][NextTranscribe]_vars

----------------------------------------------------------------------------
(* Properties of the marker store *)

\* C1: after any sequence of marker operations the marker list is sorted
\* ascending by time, the fixed markers included.
C1_MarkersSortedByTime == IsSortedByTime(heap, markers)

\* a move has carried a user marker past another one: the list is in time
\* order while the names, given in an earlier time order, are not
C1_MovedPastAnother ==
    /\ status = "Updated marker"
    /\ \E i \in 1..(Len(markers) - 1) :
           /\ ~IsFixed(heap[markers[i]]) /\ ~IsFixed(heap[markers[i + 1]])
           /\ heap[markers[i]].name > heap[markers[i + 1]].name
           /\ heap[markers[i]].time < heap[markers[i + 1]].time

\* C2: starting from a list that holds Marker0 and Marker500, both fixed
\* markers are still in the list, under those names, after any sequence of
\* add, move, delete, delete-all, undo and redo operations.
C2_FixedMarkersPresent ==
    /\ \E i \in 1..Len(markers) : heap[markers[i]].name = Marker0
    /\ \E i \in 1..Len(markers) : heap[markers[i]].name = Marker500

\* C3: no two non-fixed markers of the list have times that differ by less
\* than 1.0 second, a time clamped to 0.001 after the spacing check included.
C3_UserMarkersOneSecondApart ==
    \A i, j \in 1..Len(markers) :
        (i < j /\ ~IsFixed(heap[markers[i]]) /\ ~IsFixed(heap[markers[j]]))
            => Abs(heap[markers[i]].time - heap[markers[j]].time) >= 1000

\* C4 as the specification states it: no non-fixed marker lies within
\* 1.0 second of a fixed marker.
C4_NoUserMarkerNearFixed ==
    \A i, j \in 1..Len(markers) :
        (~IsFixed(heap[markers[i]]) /\ IsFixed(heap[markers[j]]))
            => Abs(heap[markers[i]].time - heap[markers[j]].time) >= 1000

\* C4: an add or move is rejected for spacing only when the requested time is
\* within 1.0 second of a non-fixed marker (for a move, of one that differs
\* from the marker moved); a requested time that is within 1.0 second of
\* Marker0 or Marker500 only, and passes the other checks, is accepted.
C4_SpacingSkipsFixedMarkers ==
    LET NearUser(t, skip) ==
            \E i \in 1..Len(markers) :
                /\ ~IsFixed(heap[markers[i]])
                /\ skip = <<>> \/ heap[markers[i]] # skip[1]
                /\ Abs(heap[markers[i]].time - t) < 1000
        NearFixed(t) ==
            \E i \in 1..Len(markers) :
                /\ IsFixed(heap[markers[i]])
                /\ Abs(heap[markers[i]].time - t) < 1000
        InRange(t) == t <= duration - END_TOLERANCE
        Selected == selected_marker_index # None /\ selected_marker_index < Len(markers)
    IN  /\ \A in \in AddInputs :
               LET t == AddMarkerTime(in[1], in[2], in[3])
                   r == add_marker(Self, in[1], in[2], in[3])
               IN  /\ r.status = "Cannot add marker within 1 second of existing marker"
                          => NearUser(t, <<>>)
                   /\ (NearFixed(t) /\ ~NearUser(t, <<>>) /\ InRange(t)
                           /\ Len(markers) < max_markers)
                          => r.status = "Added marker"
        /\ \A entry \in Entries :
               LET t == entry.time
                   r == add_marker_at_time(Self, entry)
               IN  entry.valid =>
                       /\ r.status = "Cannot add marker within 1 second of existing marker"
                              => NearUser(t, <<>>)
                       /\ (NearFixed(t) /\ ~NearUser(t, <<>>) /\ InRange(t)
                               /\ Len(markers) < max_markers)
                              => r.status = "Added marker"
        /\ \A entry \in Entries :
               LET t == entry.time
                   r == update_selected_marker_time(Self, entry)
                   moved == <<heap[markers[selected_marker_index + 1]]>>
               IN  (entry.valid /\ Selected) =>
                       /\ r.status = "Cannot update marker within 1 second of existing marker"
                              => NearUser(t, moved)
                       /\ (NearFixed(t) /\ ~NearUser(t, moved) /\ InRange(t))
                              => r.status = "Updated marker"

\* an accepted add has left a user marker within 1.0 second of a fixed marker
C4_AddedNearFixed ==
    /\ status = "Added marker"
    /\ selected_marker_index # None /\ selected_marker_index < Len(markers)
    /\ ~IsFixed(heap[markers[selected_marker_index + 1]])
    /\ \E j \in 1..Len(markers) :
           /\ IsFixed(heap[markers[j]])
           /\ Abs(heap[markers[selected_marker_index + 1]].time
                      - heap[markers[j]].time) < 1000

\* C5: every non-fixed marker has a time of at least 0.001, whatever time an
\* add or a move asked for, a negative one included.
C5_UserMarkersNotBelowMinimum ==
    \A i \in 1..Len(markers) :
        ~IsFixed(heap[markers[i]]) => heap[markers[i]].time >= 1

\* C6: an add or move whose requested time exceeds duration - END_TOLERANCE
\* is rejected and changes neither the list nor the stacks, so the marker an
\* accepted add or move places has a time of at most duration - 0.5.
C6_BeyondToleranceRejected ==
    LET Rejected(r) ==
            /\ r.status = "Time exceeds valid range"
            /\ r.heap = heap /\ r.markers = markers
            /\ r.undo_stack = undo_stack /\ r.redo_stack = redo_stack
        Placed(r) == r.heap[r.markers[r.selected_marker_index + 1]]
        Selected == selected_marker_index # None /\ selected_marker_index < Len(markers)
    IN  /\ \A in \in AddInputs :
               LET t == AddMarkerTime(in[1], in[2], in[3])
                   r == add_marker(Self, in[1], in[2], in[3])
               IN  /\ (t > duration - 500 /\ Len(markers) < max_markers) => Rejected(r)
                   /\ r.status = "Added marker" => Placed(r).time <= duration - 500
        /\ \A entry \in Entries :
               LET r == add_marker_at_time(Self, entry)
               IN  entry.valid =>
                       /\ (entry.time > duration - 500 /\ Len(markers) < max_markers)
                              => Rejected(r)
                       /\ r.status = "Added marker" => Placed(r).time <= duration - 500
        /\ \A entry \in Entries :
               LET r == update_selected_marker_time(Self, entry)
               IN  (entry.valid /\ Selected) =>
                       /\ entry.time > duration - 500 => Rejected(r)
                       /\ r.status = "Updated marker" => Placed(r).time <= duration - 500

\* an add or a move has been turned down for its time, user markers present
C6_RejectedBeyondTolerance ==
    /\ status = "Time exceeds valid range"
    /\ \E i \in 1..Len(markers) : ~IsFixed(heap[markers[i]])
    /\ \A i \in 1..Len(markers) :
           ~IsFixed(heap[markers[i]]) => heap[markers[i]].time <= duration - 500

\* C7: in every reachable state the marker list holds at most 100 markers.
C7_AtMostMaxMarkers == Len(markers) <= 100

\* C8 as the specification states it: an add is accepted for capacity while
\* fewer than 100 user markers exist, the fixed markers not counted, and is
\* rejected with the list unchanged when 100 user markers exist.
C8_CapacityCountsUserMarkers ==
    LET users == Len(SelectSeq(markers, LAMBDA id : ~IsFixed(heap[id])))
    IN  /\ \A in \in AddInputs :
               LET r == add_marker(Self, in[1], in[2], in[3])
               IN  IF users < 100 THEN r.status # "Maximum markers reached"
                   ELSE r.status = "Maximum markers reached" /\ r.markers = markers
        /\ \A entry \in Entries :
               LET r == add_marker_at_time(Self, entry)
               IN  IF users < 100 THEN r.status # "Maximum markers reached"
                   ELSE r.status = "Maximum markers reached" /\ r.markers = markers

\* C8: an add is accepted for capacity while the marker list, the two fixed
\* markers counted, holds fewer than 100 markers, and an add made when the
\* list holds 100 markers is rejected with the marker list unchanged.
C8_CapacityCountsAllMarkers ==
    /\ \A in \in AddInputs :
           LET r == add_marker(Self, in[1], in[2], in[3])
           IN  IF Len(markers) < 100 THEN r.status # "Maximum markers reached"
               ELSE /\ r.status = "Maximum markers reached"
                    /\ r.markers = markers /\ r.heap = heap
    /\ \A entry \in Entries :
           LET r == add_marker_at_time(Self, entry)
           IN  IF Len(markers) < 100 THEN r.status # "Maximum markers reached"
               ELSE /\ r.status = "Maximum markers reached"
                    /\ r.markers = markers /\ r.heap = heap

\* an add has been rejected for capacity with 98 user markers in the list
C8_RejectedAtCapacity ==
    /\ status = "Maximum markers reached"
    /\ Len(markers) = 100
    /\ Len(SelectSeq(markers, LAMBDA id : ~IsFixed(heap[id]))) = 98

\* C9: every mutating operation that succeeds appends exactly one record,
\* describing its inverse, to the undo stack before it returns.
C9_SuccessAppendsOneRecord ==
    LET Recorded(r, action) ==
            /\ r.undo_stack # <<>>
            /\ r.undo_stack[Len(r.undo_stack)].action = action
            /\ \/ /\ Len(r.undo_stack) = Len(undo_stack) + 1
                  /\ SubSeq(r.undo_stack, 1, Len(undo_stack)) = undo_stack
               \/ /\ Len(undo_stack) = max_history
                  /\ SubSeq(r.undo_stack, 1, max_history - 1) = Tail(undo_stack)
    IN  /\ \A in \in AddInputs :
               LET r == add_marker(Self, in[1], in[2], in[3])
               IN  r.status = "Added marker" => Recorded(r, "add_marker")
        /\ \A entry \in Entries :
               LET r == add_marker_at_time(Self, entry)
               IN  r.status = "Added marker" => Recorded(r, "add_marker")
        /\ \A entry \in Entries :
               LET r == update_selected_marker_time(Self, entry)
               IN  r.status = "Updated marker" => Recorded(r, "move_marker")
        /\ \A selection \in Selections :
               LET r == delete_selected_marker(Self, selection, TRUE)
               IN  r.status = "Deleted markers" => Recorded(r, "delete_markers")
        /\ \A current_pos \in Positions :
               LET r == delete_nearest_marker(Self, current_pos, TRUE)
               IN  r.status = "Deleted nearest marker" => Recorded(r, "delete_marker")
        /\ LET r == delete_all_markers(Self, TRUE)
           IN  r.status = "All user markers deleted" => Recorded(r, "delete_all_markers")

\* C10: an add or move rejected by validation (capacity, entry format,
\* bounds, spacing, no valid selection) leaves the marker list, the undo
\* stack and the redo stack exactly as they were.
C10_RejectionChangesNothing ==
    LET Untouched(r) ==
            /\ r.heap = heap /\ r.markers = markers
            /\ r.undo_stack = undo_stack /\ r.redo_stack = redo_stack
        AddRejections ==
            {"Maximum markers reached", "Invalid time format",
             "Time exceeds valid range",
             "Cannot add marker within 1 second of existing marker"}
        MoveRejections ==
            {"Please select a marker first", "Invalid time format",
             "Time exceeds valid range",
             "Cannot update marker within 1 second of existing marker"}
    IN  /\ \A in \in AddInputs :
               LET r == add_marker(Self, in[1], in[2], in[3])
               IN  r.status \in AddRejections => Untouched(r)
        /\ \A entry \in Entries :
               LET r == add_marker_at_time(Self, entry)
               IN  r.status \in AddRejections => Untouched(r)
        /\ \A entry \in Entries :
               LET r == update_selected_marker_time(Self, entry)
               IN  r.status \in MoveRejections => Untouched(r)

\* a move has been rejected for spacing while the undo stack holds records
C10_MoveRejectedWithHistory ==
    /\ status = "Cannot update marker within 1 second of existing marker"
    /\ Len(undo_stack) >= 2

\* C11: recording an operation puts it on top of the undo stack, keeps only
\* the most recent max_history (50) records by dropping the oldest, empties
\* the redo stack and touches nothing else.
C11_PushKeepsMostRecent ==
    \A operation \in {Operation("move_marker", 1, NoRecordData, 1, 1000, <<>>),
                      Operation("delete_all_markers", None, NoRecordData, 0, 0,
                                Dicts(heap, markers))} :
        LET r == push_to_undo_stack(Self, operation)
            all == Append(undo_stack, operation)
        IN  /\ r.undo_stack[Len(r.undo_stack)] = operation
            /\ Len(r.undo_stack) <= 50
            /\ r.undo_stack = IF Len(all) > 50 THEN SubSeq(all, Len(all) - 49, Len(all))
                               ELSE all
            /\ r.redo_stack = <<>>
            /\ r.heap = heap /\ r.markers = markers /\ r.segments = segments

\* a move has been recorded on a full undo stack: the stack still holds 50
\* records, the record of the add that opened the session is gone, the new
\* record is on top and the redo stack is empty
C11_PushedOnFullStack ==
    /\ status = "Updated marker"
    /\ calls_left = MaxCallsHistory - 1
    /\ Len(undo_stack) = 50
    /\ undo_stack[1].action = "move_marker"
    /\ undo_stack[50].to_time = heap[markers[selected_marker_index + 1]].time
    /\ redo_stack = <<>>

\* C12: a successful move immediately followed by undo_action restores the
\* marker list to exactly its state before the move, also when the move
\* changed the marker's position in the sorted order. Stated for moves of a
\* user marker on a well-formed list: sorted, fixed pair present, user
\* markers at 0.001 or later and at least 1.0 second apart.
C12_UndoRestoresMove ==
    LET list == Dicts(heap, markers)
        WellFormed ==
            /\ IsSortedByTime(heap, markers)
            /\ \E i \in 1..Len(list) : list[i].name = Marker0
            /\ \E i \in 1..Len(list) : list[i].name = Marker500
            /\ \A i \in 1..Len(list) : ~IsFixed(list[i]) => list[i].time >= 1
            /\ \A i, j \in 1..Len(list) :
                   (i < j /\ ~IsFixed(list[i]) /\ ~IsFixed(list[j]))
                       => list[j].time - list[i].time >= 1000
    IN  WellFormed =>
            \A entry \in Entries :
                LET r == update_selected_marker_time(Self, entry)
                    u == undo_action(r)
                IN  (/\ r.status = "Updated marker"
                     /\ ~IsFixed(list[selected_marker_index + 1]))
                        => Dicts(u.heap, u.markers) = list

\* C13: for a single successful add, move or delete of one user marker on a
\* well-formed list, the operation, then undo_action, then redo_action yields
\* a marker list equal field for field and in order to the list right after
\* the operation.
C13_UndoRedoRestoresResult ==
    LET list == Dicts(heap, markers)
        WellFormed ==
            /\ IsSortedByTime(heap, markers)
            /\ \E i \in 1..Len(list) : list[i].name = Marker0
            /\ \E i \in 1..Len(list) : list[i].name = Marker500
            /\ \A i \in 1..Len(list) : ~IsFixed(list[i]) => list[i].time >= 1
            /\ \A i, j \in 1..Len(list) :
                   (i < j /\ ~IsFixed(list[i]) /\ ~IsFixed(list[j]))
                       => list[j].time - list[i].time >= 1000
        Restored(r) ==
            LET rr == redo_action(undo_action(r))
            IN  Dicts(rr.heap, rr.markers) = Dicts(r.heap, r.markers)
    IN  WellFormed =>
            /\ \A entry \in Entries :
                   LET r == add_marker_at_time(Self, entry)
                   IN  r.status = "Added marker" => Restored(r)
            /\ \A entry \in Entries :
                   LET r == update_selected_marker_time(Self, entry)
                   IN  (/\ r.status = "Updated marker"
                        /\ ~IsFixed(list[selected_marker_index + 1])) => Restored(r)
            /\ \A current_pos \in Positions :
                   LET r == delete_nearest_marker(Self, current_pos, TRUE)
                   IN  r.status = "Deleted nearest marker" => Restored(r)
            /\ \A idx \in IndexInputs :
                   LET r == delete_selected_marker(Self, {idx}, TRUE)
                   IN  r.status = "Deleted markers" => Restored(r)

\* C14: deleting user markers with delete_selected_marker or
\* delete_nearest_marker and then calling undo_action puts every deleted
\* marker back in the marker list with its time, comment and content.
C14_UndoRestoresDeleted ==
    LET list == Dicts(heap, markers)
        Back(u) ==
            \A i \in 1..Len(list) :
                \E j \in 1..Len(u.markers) :
                    /\ u.heap[u.markers[j]].time = list[i].time
                    /\ u.heap[u.markers[j]].comment = list[i].comment
                    /\ u.heap[u.markers[j]].content = list[i].content
    IN  /\ \A current_pos \in Positions :
               LET r == delete_nearest_marker(Self, current_pos, TRUE)
               IN  r.status = "Deleted nearest marker" => Back(undo_action(r))
        /\ \A selection \in Selections :
               LET r == delete_selected_marker(Self, selection, TRUE)
               IN  r.status = "Deleted markers" => Back(undo_action(r))

\* C15: redoing a delete_all_markers record leaves the marker list equal to
\* the fixed-only list, Marker0 and Marker500 and nothing else.
C15_RedoDeleteAllKeepsFixed ==
    (redo_stack # <<>> /\ redo_stack[Len(redo_stack)].action = "delete_all_markers")
        => LET r == redo_action(Self)
               list == Dicts(r.heap, r.markers)
           IN  /\ Len(list) = 2
               /\ list[1].name = Marker0
               /\ list[2].name = Marker500

\* C16: no delete operation removes a fixed marker: delete_nearest_marker on
\* a fixed marker and delete_selected_marker on a selection of fixed markers
\* only are rejected with markers and undo stack unchanged, and a mixed
\* selection deletes only its user markers.
C16_DeletesSpareFixedMarkers ==
    LET list == Dicts(heap, markers)
        FixedOf(h, m) == SelectSeq(Dicts(h, m), IsFixed)
        Times(l) == [i \in 1..Len(l) |-> l[i].time]
        Untouched(r) ==
            r.heap = heap /\ r.markers = markers /\ r.undo_stack = undo_stack
    IN  /\ \A selection \in Selections :
               LET r == delete_selected_marker(Self, selection, TRUE)
                   chosen == {idx \in selection : idx < Len(list)}
                   kept == SelectSeq([i \in 1..Len(list) |-> i],
                                     LAMBDA i : (i - 1) \notin chosen \/ IsFixed(list[i]))
               IN  /\ FixedOf(r.heap, r.markers) = FixedOf(heap, markers)
                   /\ (chosen # {} /\ \A idx \in chosen : IsFixed(list[idx + 1]))
                          => (Untouched(r) /\ r.status = "Selected markers are protected")
                   /\ Times(Dicts(r.heap, r.markers))
                          = [k \in 1..Len(kept) |-> list[kept[k]].time]
        /\ \A current_pos \in Positions :
               LET r == delete_nearest_marker(Self, current_pos, TRUE)
               IN  /\ FixedOf(r.heap, r.markers) = FixedOf(heap, markers)
                   /\ (list # <<>> /\ IsFixed(list[Nearest(Self, current_pos)]))
                          => (Untouched(r) /\ r.status = "Cannot delete protected marker")

\* a delete of the listbox selection has removed the only user marker and
\* left the fixed pair, and a record of one deleted marker
C16_UserMarkerDeleted ==
    /\ status = "Deleted markers"
    /\ Len(markers) = 2
    /\ heap[markers[1]].name = Marker0 /\ heap[markers[2]].name = Marker500
    /\ Len(undo_stack[Len(undo_stack)].markers_data) = 1

\* C17: a move never changes the time of Marker0 or Marker500, whatever
\* value selected_marker_index holds, one set by jump_to_next_marker or
\* jump_to_previous_marker included.
C17_MoveSparesFixedMarkers ==
    \A entry \in Entries :
        LET r == update_selected_marker_time(Self, entry)
        IN  SelectSeq(Dicts(r.heap, r.markers), IsFixed)
                = SelectSeq(Dicts(heap, markers), IsFixed)

\* C18: delete_all_markers removes every non-fixed marker and keeps the fixed
\* markers, and a second call right after it changes neither the markers nor
\* the undo stack: the list is the same fixed-only list both times.
C18_DeleteAllTwice ==
    LET list == Dicts(heap, markers)
        r1 == delete_all_markers(Self, TRUE)
        r2 == delete_all_markers(r1, TRUE)
    IN  /\ Dicts(r1.heap, r1.markers) = SelectSeq(list, IsFixed)
        /\ (\E i \in 1..Len(list) : ~IsFixed(list[i]))
               => /\ r1.status = "All user markers deleted"
                  /\ r1.undo_stack # undo_stack
        /\ r2.status = "No user markers to delete"
        /\ r2.markers = r1.markers /\ r2.heap = r1.heap
        /\ r2.undo_stack = r1.undo_stack /\ r2.redo_stack = r1.redo_stack

\* delete_all_markers has been called again right after it emptied the list
\* of its user markers
C18_SecondDeleteAll ==
    /\ status = "No user markers to delete"
    /\ undo_stack # <<>>
    /\ undo_stack[Len(undo_stack)].action = "delete_all_markers"
    /\ Len(undo_stack[Len(undo_stack)].markers_data) > Len(markers)
    /\ \A i \in 1..Len(markers) : IsFixed(heap[markers[i]])

\* C19: the N user markers of the list are named Marker1..MarkerN in
\* ascending time order, with no gap and no duplicate name.
C19_UserMarkersNumberedInOrder ==
    LET user_markers == SelectSeq(Dicts(heap, markers), NotFixed)
    IN  \A k \in 1..Len(user_markers) : user_markers[k].name = k

\* C20: undo_action on an empty undo stack and redo_action on an empty redo
\* stack change nothing but the status: the marker list, both stacks and the
\* segment list are as before.
C20_EmptyStackNoOp ==
    LET Same(r) ==
            /\ r.heap = heap /\ r.markers = markers
            /\ r.undo_stack = undo_stack /\ r.redo_stack = redo_stack
            /\ r.segments = segments
            /\ r.selected_marker_index = selected_marker_index
            /\ r.saved = 0
    IN  /\ undo_stack = <<>> =>
               (Same(undo_action(Self)) /\ undo_action(Self).status = "Nothing to undo")
        /\ redo_stack = <<>> =>
               (Same(redo_action(Self)) /\ redo_action(Self).status = "Nothing to redo")

\* undo_action has been called on an empty undo stack while the redo stack
\* held a record
C20_UndoOnEmptyStack ==
    /\ status = "Nothing to undo"
    /\ undo_stack = <<>>
    /\ redo_stack # <<>>

----------------------------------------------------------------------------
(* Properties of the segment engine *)

\* C21: after every marker operation the segment list is the partition
\* derived from the current markers: with n >= 2 markers there are n - 1
\* segments, segment i has index i, starts at the time of the i-th marker in
\* time order and ends at the time of the next one, start_time <= end_time,
\* duration = end_time - start_time, and consecutive segments share their
\* boundary.
C21_SegmentsPartitionMarkers ==
    LET sorted_markers == SortByTime(heap, markers)
        n == Len(sorted_markers)
    IN  n >= 2 =>
            /\ Len(segments) = n - 1
            /\ \A i \in 1..(n - 1) :
                   /\ segments[i].index = i - 1
                   /\ segments[i].start_time = heap[sorted_markers[i]].time
                   /\ segments[i].end_time = heap[sorted_markers[i + 1]].time
                   /\ segments[i].start_time <= segments[i].end_time
                   /\ segments[i].duration
                          = segments[i].end_time - segments[i].start_time
            /\ \A i \in 1..(n - 2) :
                   segments[i].end_time = segments[i + 1].start_time

\* a move has changed the boundaries of the partition: there are three
\* segments and the moved marker's new time is where two of them meet
C21_MovedBoundary ==
    /\ status = "Updated marker"
    /\ Len(segments) = 3
    /\ undo_stack # <<>>
    /\ undo_stack[Len(undo_stack)].action = "move_marker"
    /\ undo_stack[Len(undo_stack)].from_time # undo_stack[Len(undo_stack)].to_time
    /\ \E i \in 1..2 : segments[i].end_time = undo_stack[Len(undo_stack)].to_time

\* C22: when an add puts a marker at a time t strictly inside a segment
\* [s, e] with content X, the recomputed segment [s, t] has content X, the
\* recomputed segment [t, e] has empty content, and every other segment
\* keeps its interval and its content.
C22_SplitKeepsContentLeft ==
    LET Split(r) ==
            LET t == r.heap[r.markers[r.selected_marker_index + 1]].time
            IN  r.status = "Added marker" =>
                    \A i \in 1..Len(segments) :
                        (segments[i].start_time < t /\ t < segments[i].end_time) =>
                            /\ Len(r.segments) = Len(segments) + 1
                            /\ r.segments[i].start_time = segments[i].start_time
                            /\ r.segments[i].end_time = t
                            /\ r.segments[i].content = segments[i].content
                            /\ r.segments[i + 1].start_time = t
                            /\ r.segments[i + 1].end_time = segments[i].end_time
                            /\ r.segments[i + 1].content = <<>>
                            /\ \A k \in 1..Len(segments) :
                                   LET after == r.segments[IF k < i THEN k ELSE k + 1]
                                   IN  k # i =>
                                           /\ after.start_time = segments[k].start_time
                                           /\ after.end_time = segments[k].end_time
                                           /\ after.content = segments[k].content
    IN  /\ \A entry \in Entries : Split(add_marker_at_time(Self, entry))
        /\ \A in \in AddInputs : Split(add_marker(Self, in[1], in[2], in[3]))

\* a marker has been added inside a transcribed segment: the segment that
\* ends at the new marker has content, the one that starts there has none,
\* and another segment holds content too
C22_SplitTranscribedSegment ==
    /\ status = "Added marker"
    /\ \E i \in 1..(Len(segments) - 1) :
           /\ segments[i].end_time = heap[markers[selected_marker_index + 1]].time
           /\ segments[i].start_time < segments[i].end_time
           /\ segments[i].content # <<>>
           /\ segments[i + 1].content = <<>>
           /\ segments[i + 1].start_time < segments[i + 1].end_time
           /\ \E k \in 1..Len(segments) : k \notin {i, i + 1} /\ segments[k].content # <<>>

\* C23: when the user marker between the adjacent segments [a, b] (content
\* A) and [b, c] (content B) is deleted, the recomputed segment [a, c] holds
\* A and B joined by one newline when both are non-empty, the non-empty one
\* alone when only one is, nothing when both are empty, and every other
\* segment keeps its interval and its content.
C23_MergeJoinsContents ==
    LET Joined(a, b) == IF a = <<>> THEN b
                        ELSE IF b = <<>> THEN a
                        ELSE a \o <<"\n">> \o b
        \* p: the 1-based place of the deleted marker in the list
        Merge(r, p) ==
            (/\ IsSortedByTime(heap, markers)
             /\ 1 < p /\ p < Len(markers)
             /\ Len(segments) = Len(markers) - 1) =>
                /\ Len(r.segments) = Len(segments) - 1
                /\ r.segments[p - 1].start_time = segments[p - 1].start_time
                /\ r.segments[p - 1].end_time = segments[p].end_time
                /\ r.segments[p - 1].content
                       = Joined(segments[p - 1].content, segments[p].content)
                /\ \A k \in 1..Len(segments) :
                       LET after == r.segments[IF k < p THEN k ELSE k - 1]
                       IN  k \notin {p - 1, p} =>
                               /\ after.start_time = segments[k].start_time
                               /\ after.end_time = segments[k].end_time
                               /\ after.content = segments[k].content
    IN  /\ \A current_pos \in Positions :
               LET r == delete_nearest_marker(Self, current_pos, TRUE)
               IN  r.status = "Deleted nearest marker"
                       => Merge(r, Nearest(Self, current_pos))
        /\ \A idx \in IndexInputs :
               LET r == delete_selected_marker(Self, {idx}, TRUE)
               IN  r.status = "Deleted markers" => Merge(r, idx + 1)

\* the marker between two transcribed segments has been deleted: the
\* segment in their place holds both texts with a newline between them
C23_MergedTranscribedSegments ==
    /\ status \in {"Deleted nearest marker", "Deleted markers"}
    /\ undo_stack # <<>>
    /\ undo_stack[Len(undo_stack)].action \in {"delete_marker", "delete_markers"}
    /\ \E i \in 1..Len(segments) :
           \E a \in Texts, b \in Texts : segments[i].content = a \o <<"\n">> \o b

\* C24: across any single marker operation (add, move, delete, delete-all,
\* undo, redo), a segment whose start_time and end_time are the same before
\* and after the recomputation keeps its content verbatim.
C24_SameIntervalKeepsContent ==
    LET Kept(r) ==
            \A i \in 1..Len(segments), k \in 1..Len(r.segments) :
                (/\ r.segments[k].start_time = segments[i].start_time
                 /\ r.segments[k].end_time = segments[i].end_time)
                    => r.segments[k].content = segments[i].content
    IN  /\ \A entry \in Entries :
               /\ Kept(add_marker_at_time(Self, entry))
               /\ Kept(update_selected_marker_time(Self, entry))
        /\ \A in \in AddInputs : Kept(add_marker(Self, in[1], in[2], in[3]))
        /\ \A current_pos \in Positions :
               Kept(delete_nearest_marker(Self, current_pos, TRUE))
        /\ \A selection \in Selections :
               Kept(delete_selected_marker(Self, selection, TRUE))
        /\ Kept(delete_all_markers(Self, TRUE))
        /\ Kept(undo_action(Self))
        /\ Kept(redo_action(Self))

\* a marker has been moved while a transcribed segment that does not touch
\* it, before or after the move, still holds its text
C24_MovedBesideTranscribedSegment ==
    /\ status = "Updated marker"
    /\ undo_stack # <<>>
    /\ undo_stack[Len(undo_stack)].action = "move_marker"
    /\ undo_stack[Len(undo_stack)].from_time # undo_stack[Len(undo_stack)].to_time
    /\ \E i \in 1..Len(segments) :
           /\ segments[i].content # <<>>
           /\ {segments[i].start_time, segments[i].end_time}
                  \cap {undo_stack[Len(undo_stack)].from_time,
                        undo_stack[Len(undo_stack)].to_time} = {}

\* C25: after any marker add, move or delete no content is lost: every
\* non-empty content held by a segment before the recomputation is contained
\* in the content of some segment after it.
C25_NoContentLost ==
    LET Contains(whole, part) ==
            \E k \in 0..(Len(whole) - Len(part)) :
                SubSeq(whole, k + 1, k + Len(part)) = part
        Carried(r) ==
            \A i \in 1..Len(segments) :
                segments[i].content # <<>> =>
                    \E k \in 1..Len(r.segments) :
                        Contains(r.segments[k].content, segments[i].content)
    IN  /\ \A entry \in Entries :
               /\ Carried(add_marker_at_time(Self, entry))
               /\ Carried(update_selected_marker_time(Self, entry))
        /\ \A in \in AddInputs : Carried(add_marker(Self, in[1], in[2], in[3]))
        /\ \A current_pos \in Positions :
               Carried(delete_nearest_marker(Self, current_pos, TRUE))
        /\ \A selection \in Selections :
               Carried(delete_selected_marker(Self, selection, TRUE))

\* C26: within one recomputation each previous segment is consumed at most
\* once: its content is carried into at most one new segment, by exact
\* match, split or merge. Stated for the recomputation every marker
\* operation starts, and for a previous segment whose non-empty content is
\* found in no other previous segment, so that it can be traced.
C26_ContentCarriedAtMostOnce ==
    LET Contains(whole, part) ==
            \E k \in 0..(Len(whole) - Len(part)) :
                SubSeq(whole, k + 1, k + Len(part)) = part
        Traceable(i) ==
            /\ segments[i].content # <<>>
            /\ \A j \in 1..Len(segments) :
                   j # i => ~Contains(segments[j].content, segments[i].content)
        Once(r) ==
            LET recomputed == _calculate_segments(segments, r.heap, r.markers)
            IN  \A i \in 1..Len(segments) :
                    Traceable(i) =>
                        Cardinality({k \in 1..Len(recomputed) :
                                        Contains(recomputed[k].content,
                                                 segments[i].content)}) <= 1
    IN  /\ \A entry \in Entries :
               /\ Once(add_marker_at_time(Self, entry))
               /\ Once(update_selected_marker_time(Self, entry))
        /\ \A in \in AddInputs : Once(add_marker(Self, in[1], in[2], in[3]))
        /\ \A current_pos \in Positions :
               Once(delete_nearest_marker(Self, current_pos, TRUE))
        /\ \A selection \in Selections :
               Once(delete_selected_marker(Self, selection, TRUE))
        /\ Once(delete_all_markers(Self, TRUE))
        /\ Once(undo_action(Self))
        /\ Once(redo_action(Self))

\* an add has been undone over transcribed segments: the two segments the
\* recomputation left hold different texts, each carried once
C26_UndoneAddOverTranscribed ==
    /\ status = "Undo: Removed marker"
    /\ Len(segments) = 2
    /\ segments[1].content # <<>>
    /\ segments[2].content # <<>>
    /\ segments[1].content # segments[2].content

\* C27: get_segment_at_time(t) returns the segment of the highest index among
\* those whose closed interval [start_time, end_time] contains t, so that a
\* time on the boundary of two segments belongs to the later one, and None
\* when no segment contains t.
C27_SegmentAtTimeIsLatest ==
    \A t \in QueryTimes :
        LET found == get_segment_at_time(segments, t)
            holding == {i \in 1..Len(segments) :
                           segments[i].start_time <= t /\ t <= segments[i].end_time}
        IN  /\ holding = {} <=> found = <<>>
            /\ holding # {} =>
                   /\ \E i \in holding : found[1] = segments[i]
                   /\ \A i \in holding : segments[i].index <= found[1].index
            /\ \A i \in 1..(Len(segments) - 1) :
                   (/\ t = segments[i].end_time
                    /\ t = segments[i + 1].start_time
                    /\ t < segments[i + 1].end_time)
                       => found = <<segments[i + 1]>>

\* after an add a query time lies on the boundary two segments share and
\* another one lies outside every segment
C27_QueriedOnBoundary ==
    /\ status = "Added marker"
    /\ \E t \in QueryTimes :
           \E i \in 1..(Len(segments) - 1) :
               /\ segments[i].start_time < t
               /\ t = segments[i].end_time
               /\ get_segment_at_time(segments, t) = <<segments[i + 1]>>
    /\ \E t \in QueryTimes : get_segment_at_time(segments, t) = <<>>

\* C28: when t lies in a segment, of index i by get_segment_at_time,
\* get_next_segment(t) returns the segment of index i + 1 and
\* get_previous_segment(t) the one of index i - 1, or None when there is no
\* such index; when t lies in no segment they return the nearest segment
\* after t and before t, or None.
C28_NextAndPreviousSegment ==
    \A t \in QueryTimes :
        LET current == get_segment_at_time(segments, t)
            next == get_next_segment(segments, t)
            previous == get_previous_segment(segments, t)
            WithIndex(x) == {i \in 1..Len(segments) : segments[i].index = x}
            After == {i \in 1..Len(segments) : t < segments[i].start_time}
            Before == {i \in 1..Len(segments) : segments[i].end_time < t}
        IN  IF current # <<>>
            THEN /\ IF WithIndex(current[1].index + 1) = {} THEN next = <<>>
                    ELSE /\ next # <<>>
                         /\ next[1].index = current[1].index + 1
                         /\ \E i \in 1..Len(segments) : next[1] = segments[i]
                 /\ IF WithIndex(current[1].index - 1) = {} THEN previous = <<>>
                    ELSE /\ previous # <<>>
                         /\ previous[1].index = current[1].index - 1
                         /\ \E i \in 1..Len(segments) : previous[1] = segments[i]
            ELSE /\ IF After = {} THEN next = <<>>
                    ELSE /\ \E i \in After : next = <<segments[i]>>
                         /\ \A i \in After : next[1].start_time <= segments[i].start_time
                 /\ IF Before = {} THEN previous = <<>>
                    ELSE /\ \E i \in Before : previous = <<segments[i]>>
                         /\ \A i \in Before : segments[i].end_time <= previous[1].end_time

\* after a move there are three segments: a query time lies in the middle
\* one, with a segment on either side, one lies in the first, one in the
\* last, and one lies before and one after all of them
C28_QueriedInEveryPlace ==
    /\ status = "Updated marker"
    /\ Len(segments) = 3
    /\ \E t \in QueryTimes :
           /\ get_segment_at_time(segments, t) = <<segments[2]>>
           /\ get_next_segment(segments, t) = <<segments[3]>>
           /\ get_previous_segment(segments, t) = <<segments[1]>>
    /\ \E t \in QueryTimes :
           /\ get_segment_at_time(segments, t) = <<segments[1]>>
           /\ get_previous_segment(segments, t) = <<>>
    /\ \E t \in QueryTimes :
           /\ get_segment_at_time(segments, t) = <<segments[3]>>
           /\ get_next_segment(segments, t) = <<>>
    /\ \E t \in QueryTimes :
           /\ get_segment_at_time(segments, t) = <<>>
           /\ get_next_segment(segments, t) = <<segments[1]>>
    /\ \E t \in QueryTimes :
           /\ get_segment_at_time(segments, t) = <<>>
           /\ get_previous_segment(segments, t) = <<segments[3]>>

\* C29: whenever the marker list holds fewer than 2 markers the recomputed
\* segment list is empty and the recomputation raises no error, in the
\* states the program reaches and for the list cut down to its first marker
\* or to none.
C29_FewMarkersNoSegments ==
    /\ Len(markers) < 2 => segments = <<>>
    /\ \A n \in 0..1 :
           n <= Len(markers) =>
               _calculate_segments(segments, heap, SubSeq(markers, 1, n)) = <<>>

\* the redo of delete_all_markers has emptied the marker list, the segment
\* list with it
C29_ListEmptied ==
    /\ status = "Redo: Cleared all markers"
    /\ markers = <<>>
    /\ segments = <<>>

\* C30: an undo_action or redo_action that pops a record puts that record on
\* the other stack, calls player.save_marker_data exactly once, and leaves
\* the segments derived from the resulting markers; on an empty stack
\* neither calls player.save_marker_data.
C30_UndoRedoMoveRecordAndSave ==
    LET Derived(r) ==
            LET sorted_markers == SortByTime(r.heap, r.markers)
                n == Len(sorted_markers)
            IN  /\ Len(r.segments) = (IF n < 2 THEN 0 ELSE n - 1)
                /\ \A i \in 1..Len(r.segments) :
                       /\ r.segments[i].index = i - 1
                       /\ r.segments[i].start_time = r.heap[sorted_markers[i]].time
                       /\ r.segments[i].end_time = r.heap[sorted_markers[i + 1]].time
        undone == undo_action(Self)
        redone == redo_action(Self)
    IN  /\ IF undo_stack = <<>> THEN undone.saved = 0
           ELSE /\ undone.undo_stack = SubSeq(undo_stack, 1, Len(undo_stack) - 1)
                /\ undone.redo_stack
                       = Append(redo_stack, undo_stack[Len(undo_stack)])
                /\ undone.saved = 1
                /\ Derived(undone)
        /\ IF redo_stack = <<>> THEN redone.saved = 0
           ELSE /\ redone.redo_stack = SubSeq(redo_stack, 1, Len(redo_stack) - 1)
                /\ redone.undo_stack
                       = Append(undo_stack, redo_stack[Len(redo_stack)])
                /\ redone.saved = 1
                /\ Derived(redone)

\* an undone add has been redone: its record is back on the undo stack and
\* player.save_marker_data has been called once
C30_RedoneAdd ==
    /\ status = "Redo: Added marker"
    /\ saved = 1
    /\ redo_stack = <<>>
    /\ undo_stack # <<>>
    /\ undo_stack[Len(undo_stack)].action = "add_marker"

----------------------------------------------------------------------------
(* Properties that follow from the code without being written in it *)

\* C31: in every reachable state the undo stack and the redo stack hold at
\* most max_history (50) records between them, so the undo stack never
\* exceeds 50 records although redo_action appends to it without truncating.
C31_StacksBoundedTogether ==
    /\ Len(undo_stack) + Len(redo_stack) <= 50
    /\ Len(undo_stack) <= 50
    /\ redo_stack # <<>> => Len(redo_action(Self).undo_stack) <= 50

\* a redo has put a record back on an undo stack that held 49: the stack is
\* full again and the redo stack is empty
C31_RedoneOntoFullStack ==
    /\ status = "Redo: Moved marker"
    /\ Len(undo_stack) = 50
    /\ redo_stack = <<>>

\* C32: recomputation is idempotent: while the marker list, with pairwise
\* distinct times, is unchanged, _calculate_segments run again leaves every
\* segment's start_time, end_time, index and content as they are, so the
\* second notification of an add or a delete alters no content.
C32_RecomputationIdempotent ==
    LET DistinctTimes(h, m) ==
            \A i, j \in 1..Len(m) : i # j => h[m[i]].time # h[m[j]].time
        Again(segs, h, m) ==
            LET again == _calculate_segments(segs, h, m)
            IN  /\ Len(again) = Len(segs)
                /\ \A i \in 1..Len(segs) :
                       /\ again[i].start_time = segs[i].start_time
                       /\ again[i].end_time = segs[i].end_time
                       /\ again[i].index = segs[i].index
                       /\ again[i].content = segs[i].content
        After(r) == DistinctTimes(r.heap, r.markers) => Again(r.segments, r.heap, r.markers)
    IN  /\ DistinctTimes(heap, markers) => Again(segments, heap, markers)
        /\ \A entry \in Entries : After(add_marker_at_time(Self, entry))
        /\ \A current_pos \in Positions :
               After(delete_nearest_marker(Self, current_pos, TRUE))
        /\ \A selection \in Selections :
               After(delete_selected_marker(Self, selection, TRUE))

\* a delete has left two transcribed segments between markers of pairwise
\* distinct times
C32_DeletedBesideTranscribed ==
    /\ status \in {"Deleted nearest marker", "Deleted markers"}
    /\ \A i, j \in 1..Len(markers) : i # j => heap[markers[i]].time # heap[markers[j]].time
    /\ Len(segments) >= 2
    /\ \E i, j \in 1..Len(segments) :
           i # j /\ segments[i].content # <<>> /\ segments[j].content # <<>>

\* C33: whenever undo_action pops an add_marker record exactly one marker,
\* the one the recorded add created, is removed from the marker list,
\* whatever was done between the add and the undo: the list after the undo
\* is the list before it less one marker at the recorded time.
C33_UndoAddRemovesAddedMarker ==
    (undo_stack # <<>> /\ undo_stack[Len(undo_stack)].action = "add_marker") =>
        LET r == undo_action(Self)
            added == heap[undo_stack[Len(undo_stack)].marker_data]
        IN  /\ Len(r.markers) = Len(markers) - 1
            /\ \E p \in 1..Len(markers) :
                   /\ heap[markers[p]].time = added.time
                   /\ [i \in 1..Len(r.markers) |-> r.heap[r.markers[i]].time]
                          = [i \in 1..(Len(markers) - 1) |->
                                heap[markers[IF i < p THEN i ELSE i + 1]].time]

\* C34: deleting the user marker between two segments and then undoing the
\* deletion restores every segment's content to what it was before the
\* deletion.
C34_UndoDeleteRestoresContent ==
    \A current_pos \in Positions :
        LET deleted == delete_nearest_marker(Self, current_pos, TRUE)
            restored == undo_action(deleted)
            p == Nearest(Self, current_pos)
        IN  (/\ deleted.status = "Deleted nearest marker"
             /\ IsSortedByTime(heap, markers)
             /\ 1 < p /\ p < Len(markers)) =>
                /\ Len(restored.segments) = Len(segments)
                /\ \A i \in 1..Len(segments) :
                       restored.segments[i].content = segments[i].content

\* C35: each notification calls every registered callback, in the order of
\* registration. A callback that raises is caught: the callbacks after it
\* still run, and the marker operation that notified ends as it ends when
\* the raising callbacks are not registered, its mutation neither aborted
\* nor rolled back.
C35_NotificationReachesEveryCallback ==
    LET n == Len(marker_change_callbacks)
        quiet == [Self EXCEPT !.marker_change_callbacks =
                      SelectSeq(@, LAMBDA callback : callback # "raises")]
        WholePasses(r) ==
            /\ n = 0 => r.notified = <<>>
            /\ n > 0 => Len(r.notified) % n = 0
            /\ \A k \in 1..Len(r.notified) : r.notified[k] = ((k - 1) % n) + 1
        Holds(r, q) ==
            /\ WholePasses(r)
            /\ Len(r.notified) * Len(quiet.marker_change_callbacks)
                   = Len(q.notified) * n
            /\ r.heap = q.heap
            /\ r.markers = q.markers
            /\ r.undo_stack = q.undo_stack
            /\ r.redo_stack = q.redo_stack
            /\ r.selected_marker_index = q.selected_marker_index
            /\ r.segments = q.segments
            /\ r.status = q.status
            /\ r.saved = q.saved
    IN  /\ \A entry \in Entries :
               /\ Holds(add_marker_at_time(Self, entry), add_marker_at_time(quiet, entry))
               /\ Holds(update_selected_marker_time(Self, entry),
                        update_selected_marker_time(quiet, entry))
        /\ \A current_pos \in Positions :
               Holds(delete_nearest_marker(Self, current_pos, TRUE),
                     delete_nearest_marker(quiet, current_pos, TRUE))
        /\ Holds(delete_all_markers(Self, TRUE), delete_all_markers(quiet, TRUE))
        /\ Holds(undo_action(Self), undo_action(quiet))
        /\ Holds(redo_action(Self), redo_action(quiet))

\* a marker was added while a raising callback was registered ahead of the
\* segment manager's, and the segments follow the new marker list
C35_NotifiedPastRaisingCallback ==
    /\ status = "Added marker"
    /\ \E i, j \in 1..Len(marker_change_callbacks) :
           /\ i < j
           /\ marker_change_callbacks[i] = "raises"
           /\ marker_change_callbacks[j] = OnMarkersChanged
    /\ Len(markers) = 3
    /\ Len(segments) = 2

\* C36: send_command_with_retry calls send_command at most max_retries
\* times. Every reply before the last one it reads is a 'property
\* unavailable' or 'error running command' error; a last reply that is a
\* success, None or another error is what it returns; when the last of
\* max_retries replies is such an error too it returns the error
\* 'failed after <max_retries> attempts'.
C36_RetryBoundedAndSelective ==
    LET sent == playback.sent
        Retried(response) ==
            /\ response # NoResponse
            /\ "error" \in DOMAIN response[1]
            /\ \/ response[1].error = <<"property", "unavailable">>
               \/ Mentions(response[1].error, <<"error", "running", "command">>)
    IN  /\ Len(sent) <= max_retries
        /\ \A k \in 1..(Len(sent) - 1) : Retried(sent[k])
        /\ status = "Playing segment" =>
               /\ Len(sent) >= 1
               /\ IF Retried(sent[Len(sent)])
                  THEN /\ Len(sent) = max_retries
                       /\ playback.response
                              = Dict("error", <<"failed", "after",
                                                ToString(max_retries), "attempts">>)
                  ELSE playback.response = sent[Len(sent)]

\* play_segment's seek was answered max_retries times with a retried error
C36_GaveUpAfterMaxRetries ==
    /\ status = "Playing segment"
    /\ Len(playback.sent) = max_retries
    /\ playback.response
           = Dict("error", <<"failed", "after", ToString(max_retries), "attempts">>)
    /\ playback.sent[max_retries] # playback.sent[1]

\* C37: when the thread of a transcribe_async call has ended, on_complete has
\* been called exactly once on it, and where it was called with None and
\* on_error was given, on_error was called before it.
C37_OnCompleteExactlyOnce ==
    \A i \in 1..Len(threads) :
        threads[i].pc # "started" =>
            LET calls == threads[i].calls
                completes == {k \in 1..Len(calls) : calls[k].callback = "on_complete"}
                errors == {k \in 1..Len(calls) : calls[k].callback = "on_error"}
            IN  /\ Cardinality(completes) = 1
                /\ \A k \in completes :
                       (calls[k].argument = "None" /\ threads[i].on_error # "absent")
                           => \E e \in errors : e < k

\* C38: after clear_segment, segment_start = segment_end = 0.0 and both
\* segment_enabled and is_in_segment_playback are false.
C38_ClearSegmentDisablesSegmentMode ==
    LET c == clear_segment(Controller)
    IN  /\ c.segment_start = 0
        /\ c.segment_end = 0
        /\ ~c.segment_enabled
        /\ ~c.is_in_segment_playback

\* C39: whenever is_in_segment_playback is true, segment_start < segment_end;
\* set_segment_end at a position not after segment_start is rejected and
\* leaves segment_end as it was.
C39_SegmentPlaybackHasProperSegment ==
    /\ playback.is_in_segment_playback =>
           playback.segment_start < playback.segment_end
    /\ \A current_pos \in Positions :
           current_pos <= playback.segment_start =>
               LET c == set_segment_end(Controller, current_pos)
               IN  /\ c.segment_end = playback.segment_end
                   /\ c.status \in {"End must be after start", "No file loaded"}

====
